---- MODULE Spec2Model ----
(***************************************************************************)
(* The Ultra protocol load path of the Hyper loader                        *)
(* (loader/protocols/ultra.c): ultra_protocol_load and the functions it    *)
(* calls, as one state machine.  The firmware services (memory map,        *)
(* allocator backend, video, filesystem, ELF loader, config store) are the *)
(* environment: each call returns one of the results the interface allows. *)
(* Addresses are counted in pages of PAGE_SIZE bytes.                      *)
(***************************************************************************)
EXTENDS Integers, Sequences, FiniteSets, TLC

(***************************************************************************)
(* Bounds of the model.                                                    *)
(***************************************************************************)
MaxModules == 47        \* `module` keys of the entry (> MODULES_PER_PAGE)
MaxCmdLen == 1          \* length of the `cmdline` string in the load path
MaxMapEntries == 2      \* firmware memory-map entries at the first query
MaxGrowth == 2          \* entries one allocation can add to the memory map
MaxModes == 3           \* modes the video service lists (video picker)
MaxArrayCmdLen == 9     \* length of the command line in the array builder
MaxOutstanding == 2     \* array regions left allocated before a new attempt
MaxCfgEntries == 3      \* entries of the config's global scope
MaxDividend == 24       \* small dividends of CEILING_DIVIDE
MaxDivisor == 8         \* small divisors of CEILING_DIVIDE
MaxRange == 4           \* elements of the range lower_bound searches
MaxKey == 3             \* largest element and key of lower_bound
MemSize == 5            \* bytes of the memory move_memory works on
MaxByte == 2            \* largest value of a byte of that memory

(***************************************************************************)
(* Program constants.                                                      *)
(***************************************************************************)
PAGE_SIZE == 4096
SizeofU64 == 8                  \* sizeof(uint64_t), ultra.c:328
SizeofU32 == 4                  \* sizeof(uint32_t), ultra.c:358
AttrHeaderSize == 8             \* struct ultra_attribute_header {u32, u32}
PlatformInfoAttrSize == 56      \* struct ultra_platform_info_attribute
KernelInfoAttrSize == 336       \* struct ultra_kernel_info_attribute
ModuleInfoAttrSize == 88        \* struct ultra_module_info_attribute
CommandLineAttrSize == 8        \* struct ultra_command_line_attribute
FramebufferAttrSize == 32       \* struct ultra_framebuffer_attribute
MemoryMapAttrSize == 8          \* struct ultra_memory_map_attribute
MemoryMapEntrySize == 24        \* struct ultra_memory_map_entry
DEFAULT_WIDTH == 1024
DEFAULT_HEIGHT == 768
DEFAULT_BPP == 32
DefaultStackSize == 16384       \* 16 * KB, ultra.c:464
MODULES_PER_PAGE == PAGE_SIZE \div ModuleInfoAttrSize

VARIABLES
    pc,                 \* position in ultra_protocol_load
    fatal,              \* oops / panic / BUG_ON was raised
    ev,                 \* external operations performed by the last step
    phases,             \* phases of the load completed so far, in order
    heap_top,           \* first page the allocator backend has not handed out
    kern,               \* spec.kern_info.bin_info (+ is_higher_half_kernel)
    fse,                \* load_kernel: "unset", "found", "null"
    bin_opts,           \* spec.kern_info.bin_opts (allocate_anywhere)
    bitness,            \* load_kernel: elf_bitness of the file (-1: not read)
    long_mode,          \* cpu_supports_long_mode(): "not_asked", "yes", "no"
    kernel_file,        \* the handle f of load_kernel: "none", "open", "closed"
    cmdline_present, cmdline_size,
    cfg_store,          \* the entries of the config store's global scope
    lookup,             \* the last config lookup and what it returned
    iter,               \* offset of the entry the last lookup returned (0: none)
    modules,            \* contents of the table spec.modules, slot by slot
    module_count, modules_capacity, module_idx,
    module_file,        \* the handle of module_load: "none", "open", "closed"
    pt,                 \* page-table root (0: none)
    pt_maps,            \* the mappings entered into the page table, in order
    stack_address,
    stack_cfg,          \* the `stack`, `allocate-at` and `size` keys read
    stack_pages,        \* pages pick_stack allocated for the stack
    video_mode_val,     \* the `video-mode` value set_video_mode read
    rm, native_res, mode_list, did_pick, picked_vm, set_mode_arg,
    fb_present, fb_rebased,
    cmdline_aligned_length, bytes_needed,
    memory_map_reserved_size, bytes_for_this_allocation, memory_map_size_new,
    attribute_array_address,
    array,              \* records written into the attribute array
    attr_count,         \* the header's attribute_count
    map_entries_written,\* entries the final copy_map stored in the record
    last_entry,         \* a firmware map entry and its converted form
    outstanding,        \* array regions allocated and not given back
    mapCount,           \* entries of the firmware memory map (0: not queried)
    growth,             \* entries the outstanding array allocation added
    snapshot_taken,     \* the final copy_map produced the handover key
    handover_res,       \* "none", "ok", "failed"
    jumped,             \* "none", "32", "64"
    jump_args,          \* the arguments of kernel_handover32 / 64
    util                \* the last call of a utility function and its result

kvars == <<kern, fse, bin_opts, bitness, long_mode, kernel_file>>
cvars == <<cmdline_present, cmdline_size, cfg_store, lookup, iter>>
mvars == <<modules, module_count, modules_capacity, module_idx, module_file>>
pvars == <<pt, pt_maps, stack_address, stack_cfg, stack_pages>>
vvars == <<video_mode_val, rm, native_res, mode_list, did_pick, picked_vm, set_mode_arg,
           fb_present, fb_rebased>>
bvars == <<cmdline_aligned_length, bytes_needed, memory_map_reserved_size,
           bytes_for_this_allocation, memory_map_size_new,
           attribute_array_address, array, attr_count, map_entries_written,
           last_entry, outstanding>>
fwvars == <<mapCount, growth, snapshot_taken>>
tvars == <<handover_res, jumped, jump_args, util>>
vars == <<pc, fatal, ev, phases, heap_top, kern, fse, bin_opts, bitness,
          long_mode, kernel_file, cmdline_present, cmdline_size,
          modules, module_count, modules_capacity, module_idx, module_file, pt,
          pt_maps, stack_address, video_mode_val, rm, native_res, mode_list, did_pick, picked_vm,
          set_mode_arg, fb_present, fb_rebased, cmdline_aligned_length,
          bytes_needed, memory_map_reserved_size, bytes_for_this_allocation,
          memory_map_size_new, attribute_array_address, array, attr_count,
          map_entries_written, mapCount, growth, snapshot_taken, handover_res,
          jumped, jump_args, cfg_store, lookup, iter, stack_cfg, stack_pages,
          last_entry, outstanding, util>>

(***************************************************************************)
(* Helpers.                                                                *)
(***************************************************************************)
B2I(b) == IF b THEN 1 ELSE 0

\* #define CEILING_DIVIDE(x, y) (!!(x) + (((x) - !!(x)) / (y)))
\* The values the expression computes on the way, and its value.
ceiling_divide_steps_round_up_first(x, y) ==
    [nonzero |-> 0, reduced |-> x + y - 1, quotient |-> (x + y - 1) \div y,
     result |-> (x + y - 1) \div y]
ceiling_divide_steps(x, y) ==
    [nonzero |-> B2I(x # 0), reduced |-> x - B2I(x # 0),
     quotient |-> (x - B2I(x # 0)) \div y,
     result |-> B2I(x # 0) + ((x - B2I(x # 0)) \div y)]

CEILING_DIVIDE(x, y) == ceiling_divide_steps(x, y).result

\* The allocator facade rounds a byte count up to whole pages.
PagesForBytes(bytes) == CEILING_DIVIDE(bytes, PAGE_SIZE)

\* (u32) of an address counted in pages: 2^32 bytes are 2^20 pages.
TruncU32(page) == page % 1048576

Min(a, b) == IF a < b THEN a ELSE b

\* An address as the kernel sees it: a page offset from 0, from
\* DIRECT_MAP_BASE or from HIGHER_HALF_BASE.
Physical(page) == [base |-> "0", page |-> page]
DirectMapped(page) == [base |-> "DIRECT_MAP_BASE", page |-> page]
HigherHalf(page) == [base |-> "HIGHER_HALF_BASE", page |-> page]

\* Lines 546-547 and 558-561: `+= DIRECT_MAP_BASE` under
\* is_higher_half_kernel, applied to the physical address at `page`.
rebase_always(page, is_higher_half_kernel) == DirectMapped(page)

rebase(page, is_higher_half_kernel) ==
    IF is_higher_half_kernel THEN DirectMapped(page) ELSE Physical(page)

NoBinInfo == [bitness |-> 0, higher_half |-> FALSE,
              kernel_range_is_direct_map |-> FALSE, physical_base |-> 0,
              range_length |-> 0, virtual_base |-> Physical(0)]
NoBinOpts == [allocate_anywhere |-> FALSE]
NoVideoValue == [kind |-> "unread", width |-> -1, height |-> -1, bpp |-> -1,
                 constraint |-> "absent"]
NoJumpArgs == [stack |-> Physical(0), array |-> Physical(0), pt |-> 0]
\* A config value: absent, a string, or an unsigned number.
Absent == [t |-> "absent", s |-> "", u |-> 0]
Str(text) == [t |-> "string", s |-> text, u |-> 0]
Uns(number) == [t |-> "unsigned", s |-> "", u |-> number]

\* The keys pick_stack can read: the `stack` value ("absent", "string" with
\* its text, or "object"), the keys allocate-at and size inside the stack
\* object (in_*), and keys of these names directly in the entry (le_*).
StackCfg(stack, text, in_at, in_size, le_at, le_size) ==
    [stack |-> stack, text |-> text, in_at |-> in_at, in_size |-> in_size,
     le_at |-> le_at, le_size |-> le_size]
NoStackCfg == StackCfg("unread", "", Absent, Absent, Absent, Absent)
NoLookup == [fn |-> "none", key |-> "", asked |-> "NONE", from |-> 0, ok |-> FALSE, err |-> FALSE, type |-> "NONE", at |-> 0]
\* A 32-bit memory type as its upper and lower 16 bits.
Type(hi, lo) == [hi |-> hi, lo |-> lo]
TypeLE(a, b) == a.hi < b.hi \/ (a.hi = b.hi /\ a.lo <= b.lo)
TypeLT(a, b) == a.hi < b.hi \/ (a.hi = b.hi /\ a.lo < b.lo)
MapEntry(address, size, type) == [physical_address |-> address, size_in_bytes |-> size, type |-> type]
NoEntryPair == [entry |-> MapEntry(0, 0, Type(0, 0)), ue |-> MapEntry(0, 0, Type(0, 0))]

NoUtil == [fn |-> "none"]
NoMode == [id |-> 0, width |-> 0, height |-> 0, bpp |-> 0]
NoRequest == [width |-> DEFAULT_WIDTH, height |-> DEFAULT_HEIGHT,
              bpp |-> DEFAULT_BPP, constraint |-> "AT_LEAST", none |-> FALSE]
NoResolution == [width |-> DEFAULT_WIDTH, height |-> DEFAULT_HEIGHT]

(***************************************************************************)
(* The order of the calls in ultra_protocol_load: the step that follows    *)
(* the step at `at` when that step returns.                                *)
(***************************************************************************)
Continue_stack_after_array(at) ==
    CASE at = "start" -> "load_kernel"
      [] at = "load_kernel" -> "cmdline"
      [] at = "cmdline" -> "modules"
      [] at = "modules" -> "page_table"
      [] at = "page_table" -> "video"
      [] at = "video" -> "baa_begin"
      [] at = "baa_copy_map" -> "pick_stack"
      [] at = "pick_stack" -> "handover"
      [] at = "handover" -> "jump"
      [] at = "jump" -> "jumped"
      [] OTHER -> "jumped"

Continue_stack_before_paging(at) ==
    CASE at = "start" -> "load_kernel"
      [] at = "load_kernel" -> "cmdline"
      [] at = "cmdline" -> "modules"
      [] at = "modules" -> "pick_stack"
      [] at = "pick_stack" -> "page_table"
      [] at = "page_table" -> "video"
      [] at = "video" -> "baa_begin"
      [] at = "baa_copy_map" -> "handover"
      [] at = "handover" -> "jump"
      [] at = "jump" -> "jumped"
      [] OTHER -> "jumped"

Continue(at) ==
    CASE at = "start" -> "load_kernel"
      [] at = "load_kernel" -> "cmdline"
      [] at = "cmdline" -> "modules"
      [] at = "modules" -> "page_table"
      [] at = "page_table" -> "pick_stack"
      [] at = "pick_stack" -> "video"
      [] at = "video" -> "baa_begin"
      [] at = "baa_copy_map" -> "handover"
      [] at = "handover" -> "jump"
      [] at = "jump" -> "jumped"
      [] OTHER -> "jumped"

(***************************************************************************)
(* oops (panic.c): log the reason, then for (;;).  `evs` are the external  *)
(* operations the step performed before it failed.                         *)
(***************************************************************************)
oops_returns(evs) ==
    /\ fatal' = TRUE
    /\ pc' = Continue(pc)
    /\ ev' = evs \cup {"log"}
    /\ phases' = phases

oops(evs) ==
    /\ fatal' = TRUE
    /\ pc' = "halted"
    /\ ev' = evs \cup {"log"}
    /\ phases' = phases

\* A step that returns normally: its operations, the phase it completes.
Return(evs, phase) ==
    /\ fatal' = fatal
    /\ pc' = Continue(pc)
    /\ ev' = evs
    /\ phases' = IF phase = "" THEN phases ELSE Append(phases, phase)

\* allocate_critical_pages*: the backend hands out the next `pages` pages.
AllocPages(pages) == heap_top' = heap_top + pages

Init ==
    /\ pc = "start"
    /\ fatal = FALSE
    /\ ev = {}
    /\ phases = <<>>
    /\ heap_top = 256
    /\ kern = NoBinInfo
    /\ fse = "unset"
    /\ bin_opts = NoBinOpts
    /\ bitness = -1
    /\ long_mode = "not_asked"
    /\ kernel_file = "none"
    /\ cmdline_present = FALSE
    /\ cmdline_size = 0
    /\ modules = <<>>
    /\ module_count = 0
    /\ modules_capacity = 0
    /\ module_idx = 0
    /\ module_file = "none"
    /\ pt = 0
    /\ pt_maps = <<>>
    /\ stack_address = 0
    /\ video_mode_val = NoVideoValue
    /\ rm = NoRequest
    /\ native_res = NoResolution
    /\ mode_list = <<>>
    /\ did_pick = FALSE
    /\ picked_vm = NoMode
    /\ set_mode_arg = 0
    /\ fb_present = FALSE
    /\ fb_rebased = FALSE
    /\ cmdline_aligned_length = 0
    /\ bytes_needed = 0
    /\ memory_map_reserved_size = 0
    /\ bytes_for_this_allocation = 0
    /\ memory_map_size_new = 0
    /\ attribute_array_address = 0
    /\ array = <<>>
    /\ attr_count = 0
    /\ map_entries_written = 0
    /\ mapCount = 0
    /\ growth = 0
    /\ snapshot_taken = FALSE
    /\ handover_res = "none"
    /\ jumped = "none"
    /\ jump_args = NoJumpArgs
    /\ cfg_store = <<>>
    /\ lookup = NoLookup
    /\ iter = 0
    /\ stack_cfg = NoStackCfg
    /\ stack_pages = 0
    /\ last_entry = NoEntryPair
    /\ outstanding = {}
    /\ util = NoUtil

(***************************************************************************)
(* ultra_protocol_load, lines 509-511: the spec is zeroed and one page is  *)
(* allocated for the module table.                                         *)
(***************************************************************************)
ulp_start ==
    /\ pc = "start"
    /\ modules_capacity' = MODULES_PER_PAGE
    /\ AllocPages(1)
    /\ Return({"alloc"}, "")
    /\ UNCHANGED <<kvars, cvars, modules, module_count, module_idx,
                   module_file, pvars, vvars, bvars, fwvars, tvars>>

(***************************************************************************)
(* load_kernel (lines 94-130) with get_binary_options (23-39).             *)
(***************************************************************************)
KernelFilePages == 3

\* Lengths physical_ceiling - physical_base of a loaded 64-bit image.
ImageLengths == {KernelFilePages * PAGE_SIZE, KernelFilePages * PAGE_SIZE + 1}

\* Lines 116-123: the image is refused before elf_load is called.
image_refused_without_cpu_check(b, anywhere, lm) ==
    \/ b = 0 \/ (b # 32 /\ b # 64)
    \/ (anywhere /\ b # 64)

image_refused(b, anywhere, lm) ==
    \/ b = 0 \/ (b # 32 /\ b # 64)
    \/ (anywhere /\ b # 64)
    \/ (b = 64 /\ ~lm)

\* The binary_info records elf_load can return for an accepted image loaded
\* at page `base`.  allocate-anywhere (a relocatable higher-half image): the
\* range is not direct mapped; a fixed load: it is direct mapped iff the
\* virtual range is HIGHER_HALF_BASE + physical_base.
elf_load(b, anywhere, base) ==
    IF b = 32
    THEN {[bitness |-> 32, higher_half |-> FALSE,
           kernel_range_is_direct_map |-> FALSE, physical_base |-> base,
           range_length |-> KernelFilePages * PAGE_SIZE,
           virtual_base |-> Physical(base)]}
    ELSE IF anywhere
    THEN {[bitness |-> 64, higher_half |-> TRUE,
           kernel_range_is_direct_map |-> FALSE, physical_base |-> base,
           range_length |-> len, virtual_base |-> HigherHalf(256)] :
              len \in ImageLengths}
    ELSE {[bitness |-> 64, higher_half |-> TRUE,
           kernel_range_is_direct_map |-> TRUE, physical_base |-> base,
           range_length |-> KernelFilePages * PAGE_SIZE,
           virtual_base |-> HigherHalf(base)]}
         \cup {[bitness |-> 64, higher_half |-> FALSE,
                kernel_range_is_direct_map |-> FALSE, physical_base |-> base,
                range_length |-> KernelFilePages * PAGE_SIZE,
                virtual_base |-> Physical(base)]}

load_kernel ==
    /\ pc = "load_kernel"
    /\ \/ \* get_binary_options: `binary` missing, or parse_path fails
          /\ oops({})
          /\ UNCHANGED <<heap_top, kvars>>
       \/ \* fs_by_full_path returns NULL: fse->fs reads through a null
          \* pointer; the loader leaves the load path without a fatal error
          /\ pc' = "wild"
          /\ ev' = {"null_deref"}
          /\ fse' = "null"
          /\ UNCHANGED <<fatal, phases, heap_top, kern, bin_opts, bitness,
                         long_mode, kernel_file>>
       \/ \* open fails
          /\ oops({"open"})
          /\ fse' = "found"
          /\ UNCHANGED <<heap_top, kern, bin_opts, bitness, long_mode,
                         kernel_file>>
       \/ \* the file is read into allocate_critical_bytes(f->size)
          /\ fse' = "found"
          /\ kernel_file' = "open"
          /\ \/ \* f->read fails
                /\ oops({"open", "alloc", "read"})
                /\ AllocPages(KernelFilePages)
                /\ UNCHANGED <<kern, bin_opts, bitness, long_mode>>
             \/ \E b \in {0, 16, 32, 64}, anywhere \in BOOLEAN,
                   lm \in BOOLEAN, elf_ok \in BOOLEAN :
                   /\ bitness' = b
                   /\ bin_opts' = [allocate_anywhere |-> anywhere]
                   \* cpu_supports_long_mode() is reached for a 64-bit
                   \* image that passed the tests of lines 116 and 119
                   /\ long_mode' = IF b = 64
                                   THEN (IF lm THEN "yes" ELSE "no")
                                   ELSE "not_asked"
                   /\ (b # 64) => lm
                   /\ IF image_refused(b, anywhere, lm)
                      THEN /\ oops({"open", "alloc", "read"})
                           /\ AllocPages(KernelFilePages)
                           /\ kern' = kern
                           /\ elf_ok
                      ELSE IF ~elf_ok
                      THEN /\ oops({"open", "alloc", "read", "elf_load"})
                           /\ AllocPages(KernelFilePages)
                           /\ kern' = kern
                      ELSE \E info \in elf_load(b, anywhere,
                                                heap_top + KernelFilePages) :
                           /\ Return({"open", "alloc", "read", "elf_load"},
                                     "kernel")
                           /\ AllocPages(KernelFilePages
                                + CEILING_DIVIDE(info.range_length, PAGE_SIZE))
                           /\ kern' = info
    /\ UNCHANGED <<cvars, mvars, pvars, vvars, bvars, fwvars, tvars>>

(***************************************************************************)
(* ultra_protocol_load, line 521: the optional command line.               *)
(***************************************************************************)
ulp_cmdline ==
    /\ pc = "cmdline"
    /\ \/ /\ cmdline_present' = FALSE
          /\ cmdline_size' = 0
       \/ /\ cmdline_present' = TRUE
          /\ \E len \in 0..MaxCmdLen : cmdline_size' = len
    /\ Return({}, "")
    /\ UNCHANGED <<heap_top, kvars, cfg_store, lookup, iter, mvars, pvars, vvars,
                   bvars, fwvars, tvars>>

(***************************************************************************)
(* The module loop of ultra_protocol_load (lines 523-535) and module_load  *)
(* (lines 41-87).  One step is one pass of the do-while loop, or the end   *)
(* of the loop when the entry has no further `module` key.                 *)
(***************************************************************************)
\* Memory the loader did not write: a slot of it reads as some stale record.
StaleTypes == {"INVALID", "MODULE_INFO", "MEMORY_MAP"}
Uninit(t) == [type |-> t, size |-> 0, name |-> "", physical_address |-> 0,
              length |-> 0]

\* Size of the k-th module file, as the filesystem reports it.
ModuleFileSize(k) == <<1, PAGE_SIZE, PAGE_SIZE + 1>>[(k % 3) + 1]

\* The `name` the config gives the k-th module value ("": none): the first
\* module is unnamed, the second is named "init", and so on in turn.
ModuleConfigName(k) == IF k % 2 = 0 THEN "init" ELSE ""

\* module_load, lines 60-61: attrs->name after the snprintf, which runs only
\* for a module without a configured name.
name_after_snprintf(slot_name, module_name, idx) ==
    IF module_name = "" THEN "unnamed_module" \o ToString(idx) ELSE slot_name

\* memcpy(new_modules, spec.modules, bytes): slot i of the new table after
\* `bytes` bytes of the old one were copied into fresh memory.
CopiedSlot(old, i, bytes, stale) ==
    IF i * ModuleInfoAttrSize <= bytes
    THEN old[i]
    ELSE IF (i - 1) * ModuleInfoAttrSize + AttrHeaderSize <= bytes
    THEN [stale EXCEPT !.type = old[i].type, !.size = old[i].size]
    ELSE stale

\* Lines 525-531: the table after ++spec.module_count reached `cnt`.
GrownTable(old, cnt, capacity, stale) ==
    IF cnt = capacity
    THEN [i \in 1..Len(old) |-> CopiedSlot(old, i, capacity, stale)]
    ELSE old

\* Pages line 526 allocates when the table grows.
GrowPages(cnt, capacity) ==
    IF cnt = capacity THEN capacity + MODULES_PER_PAGE ELSE 0

\* module_load, lines 80-84: the record stored in *attrs.  The compound
\* literal names header, physical_address and length; the members it does
\* not name, name among them, are zeroed, whatever line 61 wrote.
ModuleRecord(address, length) ==
    [type |-> "MODULE_INFO", size |-> ModuleInfoAttrSize, name |-> "",
     physical_address |-> address, length |-> length]

ulp_modules ==
    /\ pc = "modules"
    /\ \/ \* cfg_get_first_one_of / cfg_get_next_one_of: no (further) module
          /\ Return({}, "modules")
          /\ UNCHANGED <<heap_top, mvars>>
       \/ /\ module_count < MaxModules
          /\ \E stale \in {Uninit(t) : t \in StaleTypes},
                outcome \in {"bad_path", "no_fs", "open_failed",
                             "read_failed", "ok"} :
             LET cnt == module_count + 1
                 grows == cnt = modules_capacity
                 table == GrownTable(modules, cnt, modules_capacity, stale)
                 grown == GrowPages(cnt, modules_capacity)
                 growev == IF grows THEN {"alloc", "free"} ELSE {}
                 size == ModuleFileSize(cnt)
                 file_pages == CEILING_DIVIDE(size, PAGE_SIZE)
                 data == heap_top + grown
                 \* the slot &spec.modules[cnt - 1] when module_load fails:
                 \* nothing but the generated name was written to it
                 slot == [Uninit("INVALID") EXCEPT !.name =
                             name_after_snprintf("", ModuleConfigName(cnt),
                                                 module_idx + 1)]
             IN  /\ (~grows) => stale = Uninit("INVALID")
                 /\ module_count' = cnt
                 /\ module_idx' = module_idx + 1
                 /\ modules_capacity' =
                        IF grows THEN modules_capacity + MODULES_PER_PAGE
                        ELSE modules_capacity
                 /\ CASE outcome \in {"bad_path", "no_fs"} ->
                           /\ oops(growev)
                           /\ heap_top' = heap_top + grown
                           /\ modules' = Append(table, slot)
                           /\ module_file' = module_file
                      [] outcome = "open_failed" ->
                           /\ oops(growev \cup {"open"})
                           /\ heap_top' = heap_top + grown
                           /\ modules' = Append(table, slot)
                           /\ module_file' = module_file
                      [] outcome = "read_failed" ->
                           /\ oops(growev \cup {"open", "alloc", "read"})
                           /\ heap_top' = data + file_pages
                           /\ modules' = Append(table, slot)
                           /\ module_file' = "open"
                      [] OTHER ->
                           /\ fatal' = fatal
                           /\ pc' = "modules"
                           /\ ev' = growev \cup {"open", "alloc", "read",
                                                 "close"}
                           /\ phases' = phases
                           /\ heap_top' = data + file_pages
                           /\ modules' = Append(table, ModuleRecord(data, size))
                           /\ module_file' = "closed"
    /\ UNCHANGED <<kvars, cvars, pvars, vvars, bvars, fwvars, tvars>>

(***************************************************************************)
(* build_page_table (lines 425-458).                                       *)
(***************************************************************************)
GBPages == 262144       \* pages of PAGE_SIZE bytes in one GB

\* One call of map_critical_huge_pages / map_critical_pages: `pages` pages
\* of PAGE_SIZE bytes from `virtual` are mapped to the pages from `physical`.
Mapping(virtual, physical, pages, huge) ==
    [virtual |-> virtual, physical |-> physical, pages |-> pages,
     huge |-> huge]

\* Lines 436-455: the mappings entered for a 64-bit image, in order.
page_table_mappings_floor(bi) ==
    <<Mapping(Physical(0), 0, 4 * GBPages, TRUE),
      Mapping(DirectMapped(0), 0, 4 * GBPages, TRUE),
      IF ~bi.kernel_range_is_direct_map
      THEN Mapping(bi.virtual_base, bi.physical_base,
                   bi.range_length \div PAGE_SIZE, FALSE)
      ELSE Mapping(HigherHalf(0), 0, 2 * GBPages, TRUE)>>

page_table_mappings_range_only(bi) ==
    <<Mapping(Physical(0), 0, 4 * GBPages, TRUE),
      Mapping(DirectMapped(0), 0, 4 * GBPages, TRUE)>>
    \o (IF ~bi.kernel_range_is_direct_map
        THEN <<Mapping(bi.virtual_base, bi.physical_base,
                       CEILING_DIVIDE(bi.range_length, PAGE_SIZE), FALSE)>>
        ELSE <<>>)

page_table_mappings(bi) ==
    <<Mapping(Physical(0), 0, 4 * GBPages, TRUE),
      Mapping(DirectMapped(0), 0, 4 * GBPages, TRUE),
      IF ~bi.kernel_range_is_direct_map
      THEN Mapping(bi.virtual_base, bi.physical_base,
                   CEILING_DIVIDE(bi.range_length, PAGE_SIZE), FALSE)
      ELSE Mapping(HigherHalf(0), 0, 2 * GBPages, TRUE)>>

build_page_table ==
    /\ pc = "page_table"
    /\ IF kern.bitness # 64
       THEN /\ pt' = 0
            /\ pt_maps' = <<>>
            /\ heap_top' = heap_top
            /\ Return({}, "page_table")
       ELSE \* the root page, then the tables map_critical_* allocate
            /\ pt' = heap_top
            /\ pt_maps' = page_table_mappings(kern)
            /\ AllocPages(1 + 12)
            /\ Return({"alloc"}, "page_table")
    /\ UNCHANGED <<kvars, cvars, mvars, stack_address, stack_cfg, stack_pages,
                   vvars, bvars, fwvars, tvars>>

(***************************************************************************)
(* pick_stack (lines 460-503) and sv->get_rsdp() (line 539).               *)
(***************************************************************************)
\* Lines 467-492: the request the keys yield.  allocate-at and size are
\* looked up with cfg_get_one_of(cfg, le, ...), that is among the keys of the
\* entry `le` (lines 473-474), whatever the stack object contains.
stack_request(c) ==
    LET has_val == c.stack # "absent"
        alloc_at_val == c.le_at
        size_val == c.le_size
    IN  IF has_val /\ c.stack = "object"
        THEN [oops |-> (alloc_at_val.t = "string" /\ alloc_at_val.s # "anywhere")
                       \/ (size_val.t = "string" /\ size_val.s # "auto"),
              address |-> IF alloc_at_val.t = "unsigned" THEN alloc_at_val.u
                          ELSE 0,
              size |-> IF size_val.t = "unsigned" THEN size_val.u
                       ELSE DefaultStackSize]
        ELSE [oops |-> has_val /\ c.text # "auto",
              address |-> 0,
              size |-> DefaultStackSize]

\* pick_stack over a set of configs (addresses in pages, sizes in bytes).
pick_stack_step(Cfgs) ==
    /\ pc = "pick_stack"
    /\ \E c \in Cfgs :
         LET r == stack_request(c)
             pages == CEILING_DIVIDE(r.size, PAGE_SIZE)
         IN  /\ stack_cfg' = c
             /\ IF r.oops
                THEN /\ oops({})
                     /\ UNCHANGED <<heap_top, stack_address, stack_pages>>
                ELSE /\ IF r.address # 0
                        THEN /\ heap_top' = heap_top
                             /\ stack_address' = r.address + pages
                        ELSE /\ AllocPages(pages)
                             /\ stack_address' = heap_top + pages
                     /\ stack_pages' = pages
                     /\ Return({"alloc"}, "stack")
    /\ UNCHANGED <<kvars, cvars, mvars, pt, pt_maps, vvars, bvars, fwvars,
                   tvars>>

StackAbsent == StackCfg("absent", "", Absent, Absent, Absent, Absent)

\* Configs of the whole-load specification: no stack key, a stack string
\* other than "auto", a stack object in an entry that has allocate-at.
LoadStackCfgs ==
    {StackAbsent,
     StackCfg("string", "bad", Absent, Absent, Absent, Absent),
     StackCfg("object", "", Absent, Absent, Uns(128), Absent)}

\* Configs of the stack specification: every shape of the stack value, and
\* for an object every choice of the keys inside it and beside it.
StackAtValues == {Absent, Str("anywhere"), Str("bad"), Uns(128), Uns(160)}
StackSizeValues == {Absent, Str("auto"), Str("bad"), Uns(8192), Uns(20000)}
PickerStackCfgs ==
    {StackAbsent,
     StackCfg("string", "auto", Absent, Absent, Absent, Absent),
     StackCfg("string", "bad", Absent, Absent, Absent, Absent)}
    \cup {StackCfg("object", "", a, z, la, lz) : a \in StackAtValues, z \in StackSizeValues, la \in StackAtValues, lz \in StackSizeValues}

pick_stack == pick_stack_step(LoadStackCfgs)

picker_stack == pick_stack_step(PickerStackCfgs)

(***************************************************************************)
(* set_video_mode (lines 189-248) with video_mode_from_value (146-183).    *)
(***************************************************************************)
\* #define VM_EQUALS, VM_GREATER_OR_EQUAL, VM_LESS_OR_EQUAL (lines 142-144)
VM_EQUALS(l, r) ==
    l.width = r.width /\ l.height = r.height /\ l.bpp = r.bpp
VM_GREATER_OR_EQUAL(l, r) ==
    l.width >= r.width /\ l.height >= r.height /\ l.bpp >= r.bpp
VM_LESS_OR_EQUAL(l, r) ==
    l.width <= r.width /\ l.height <= r.height

\* The `video-mode` values of the config.  An object's width, height and bpp
\* are -1 when the key is missing; kind "absent" is a missing `video-mode`.
VideoValues(Ws, Hs, Bpps, Constraints) ==
    {[kind |-> k, width |-> -1, height |-> -1, bpp |-> -1,
      constraint |-> "absent"] :
        k \in {"absent", "null", "unset", "auto", "badstring"}}
    \cup [kind : {"object"}, width : Ws \cup {-1}, height : Hs \cup {-1},
          bpp : Bpps \cup {-1}, constraint : Constraints]

\* video_mode_from_value: the request after the value is applied to `mode`,
\* and whether the function ends in oops.
video_mode_from_value_unset_is_auto(val, mode) ==
    CASE val.kind = "null" -> [rm |-> [mode EXCEPT !.none = TRUE],
                               oops |-> FALSE]
      [] val.kind \in {"unset", "auto"} -> [rm |-> mode, oops |-> FALSE]
      [] val.kind = "badstring" -> [rm |-> mode, oops |-> TRUE]
      [] OTHER ->
           [rm |-> [width |-> IF val.width # -1 THEN val.width
                              ELSE mode.width,
                    height |-> IF val.height # -1 THEN val.height
                               ELSE mode.height,
                    bpp |-> IF val.bpp # -1 THEN val.bpp ELSE mode.bpp,
                    constraint |->
                        CASE val.constraint = "at-least" -> "AT_LEAST"
                          [] val.constraint = "exactly" -> "EXACTLY"
                          [] OTHER -> mode.constraint,
                    none |-> mode.none],
            oops |-> val.constraint \notin {"absent", "at-least", "exactly"}]

video_mode_from_value(val, mode) ==
    CASE val.kind = "null" -> [rm |-> [mode EXCEPT !.none = TRUE],
                               oops |-> FALSE]
      [] val.kind = "unset" -> [rm |-> [mode EXCEPT !.none = TRUE],
                                oops |-> FALSE]
      [] val.kind = "auto" -> [rm |-> mode, oops |-> FALSE]
      [] val.kind = "badstring" -> [rm |-> mode, oops |-> TRUE]
      [] OTHER ->
           [rm |-> [width |-> IF val.width # -1 THEN val.width
                              ELSE mode.width,
                    height |-> IF val.height # -1 THEN val.height
                               ELSE mode.height,
                    bpp |-> IF val.bpp # -1 THEN val.bpp ELSE mode.bpp,
                    constraint |->
                        CASE val.constraint = "at-least" -> "AT_LEAST"
                          [] val.constraint = "exactly" -> "EXACTLY"
                          [] OTHER -> mode.constraint,
                    none |-> mode.none],
            oops |-> val.constraint \notin {"absent", "at-least", "exactly"}]

\* One pass of the loop of lines 219-232 over mode m: the pick so far and
\* whether the loop breaks.
loop_body_breaks_on_candidate(m, req, native, acc) ==
    IF req.constraint = "EXACTLY" /\ VM_EQUALS(m, req)
    THEN [did_pick |-> TRUE, picked_vm |-> m, brk |-> TRUE]
    ELSE IF VM_GREATER_OR_EQUAL(m, req) /\ VM_LESS_OR_EQUAL(m, native)
    THEN [did_pick |-> TRUE, picked_vm |-> m, brk |-> TRUE]
    ELSE [acc EXCEPT !.brk = FALSE]

loop_body(m, req, native, acc) ==
    IF req.constraint = "EXACTLY" /\ VM_EQUALS(m, req)
    THEN [did_pick |-> TRUE, picked_vm |-> m, brk |-> TRUE]
    ELSE IF VM_GREATER_OR_EQUAL(m, req) /\ VM_LESS_OR_EQUAL(m, native)
    THEN [did_pick |-> TRUE, picked_vm |-> m, brk |-> FALSE]
    ELSE [acc EXCEPT !.brk = FALSE]

RECURSIVE pick_loop(_, _, _, _, _)
pick_loop(list, mode_idx, req, native, acc) ==
    IF mode_idx > Len(list)
    THEN acc
    ELSE LET r == loop_body(list[mode_idx], req, native, acc)
         IN  IF r.brk THEN r
             ELSE pick_loop(list, mode_idx + 1, req, native, r)

\* The mode lists vs->list_modes can return: up to n modes of the given
\* shapes, the id of a mode being its position in the list.
ModeLists(Shapes, n) ==
    UNION {{[i \in 1..k |-> [id |-> i, width |-> f[i][1],
                             height |-> f[i][2], bpp |-> f[i][3]]] :
                f \in [1..k -> Shapes]} : k \in 0..n}

\* Lines 545-547 of ultra_protocol_load: set_video_mode, then the rebase of
\* spec.fb.physical_address for a higher-half kernel.
\* Lines 199-211: the request set_video_mode starts from (the defaults) is
\* changed only when the entry has a `video-mode` key.
requested_mode_none_without_key(val) ==
    IF val.kind = "absent"
    THEN [rm |-> [NoRequest EXCEPT !.none = TRUE], oops |-> FALSE]
    ELSE video_mode_from_value(val, NoRequest)
requested_mode(val) ==
    IF val.kind = "absent"
    THEN [rm |-> NoRequest, oops |-> FALSE]
    ELSE video_mode_from_value(val, NoRequest)

set_video_mode(Vals, Natives, Lists) ==
    /\ pc = "video"
    /\ \E val \in Vals :
         LET r == requested_mode(val)
         IN  /\ video_mode_val' = val
             /\ IF r.oops
                THEN /\ oops({})
                     /\ UNCHANGED <<rm, native_res, mode_list, did_pick,
                                    picked_vm, set_mode_arg, fb_present,
                                    fb_rebased>>
                ELSE IF r.rm.none
                THEN /\ Return({}, "video")
                     /\ rm' = r.rm
                     /\ fb_present' = FALSE
                     /\ fb_rebased' = kern.higher_half
                     /\ UNCHANGED <<native_res, mode_list, did_pick,
                                    picked_vm, set_mode_arg>>
                ELSE \E native \in Natives, list \in Lists,
                        set_ok \in BOOLEAN :
                     LET p == pick_loop(list, 1, r.rm, native,
                                        [did_pick |-> FALSE,
                                         picked_vm |-> NoMode, brk |-> FALSE])
                         q == {"query_resolution", "list_modes"}
                     IN  /\ rm' = r.rm
                         /\ native_res' = native
                         /\ mode_list' = list
                         /\ did_pick' = p.did_pick
                         /\ picked_vm' = p.picked_vm
                         /\ IF ~p.did_pick
                            THEN /\ oops(q)
                                 /\ UNCHANGED <<set_mode_arg, fb_present,
                                                fb_rebased>>
                            ELSE IF ~set_ok
                            THEN /\ oops(q \cup {"log", "set_mode"})
                                 /\ set_mode_arg' = p.picked_vm.id
                                 /\ UNCHANGED <<fb_present, fb_rebased>>
                            ELSE /\ Return(q \cup {"log", "set_mode"},
                                           "video")
                                 /\ set_mode_arg' = p.picked_vm.id
                                 /\ fb_present' = TRUE
                                 /\ fb_rebased' = kern.higher_half
    /\ UNCHANGED <<heap_top, kvars, cvars, mvars, pvars, bvars, fwvars, tvars>>

\* Inputs of the video step in the load path, and in the study of the picker.
LoadVideoValues == VideoValues({}, {}, {}, {"absent"})
LoadNatives == {NoResolution}
LoadModeLists == ModeLists({<<DEFAULT_WIDTH, DEFAULT_HEIGHT, DEFAULT_BPP>>}, 1)
PickerShapes == {<<800, 600, 32>>, <<1024, 768, 32>>, <<1920, 1080, 32>>,
                 <<1024, 768, 24>>}
PickerVideoValues ==
    VideoValues({800, 1024}, {600, 768}, {24}, {"absent", "at-least",
                                                "exactly", "bad"})
PickerNatives == {NoResolution, [width |-> 1920, height |-> 1080]}
PickerModeLists == ModeLists(PickerShapes, MaxModes)

ulp_video == set_video_mode(LoadVideoValues, LoadNatives, LoadModeLists)

picker_video == set_video_mode(PickerVideoValues, PickerNatives,
                               PickerModeLists)

(***************************************************************************)
(* build_attribute_array (lines 310-423).                                  *)
(***************************************************************************)
\* Lines 319-326.
aligned_cmdline_length_without_nul(present, size) ==
    IF present
    THEN LET len == AttrHeaderSize + size
             remainder == len % 8
         IN  IF remainder # 0 THEN len + (8 - remainder) ELSE len
    ELSE 0
aligned_cmdline_length(present, size) ==
    IF present
    THEN LET len == AttrHeaderSize + size + 1
             remainder == len % 8
         IN  IF remainder # 0 THEN len + (8 - remainder) ELSE len
    ELSE 0

\* Lines 328-333.
static_bytes_needed(count, cmdline_len, fb) ==
    SizeofU64 + PlatformInfoAttrSize + KernelInfoAttrSize
    + count * ModuleInfoAttrSize + cmdline_len + B2I(fb) * FramebufferAttrSize

baa_begin ==
    /\ pc = "baa_begin"
    /\ cmdline_aligned_length' =
           aligned_cmdline_length(cmdline_present, cmdline_size)
    /\ bytes_needed' =
           static_bytes_needed(module_count, cmdline_aligned_length',
                               fb_present)
    /\ pc' = "baa_attempt"
    /\ ev' = {}
    /\ UNCHANGED <<fatal, phases, heap_top, kvars, cvars, mvars, pvars, vvars,
                   memory_map_reserved_size, bytes_for_this_allocation,
                   memory_map_size_new, attribute_array_address, array,
                   attr_count, map_entries_written, last_entry, outstanding,
                   fwvars, tvars>>

\* A region of the allocator: its first page and the bytes asked for.
Region(page, bytes) == [address |-> page, bytes |-> bytes]

\* Line 343: entries reserved for a map that has `count` entries now.
reserve(count) == count + 1

\* Largest memory map the model lets the firmware build.
MapCap == MaxMapEntries + 2 * MaxGrowth

\* Lines 343-348: query the map, allocate, query again.  The first query
\* finds the map the earlier allocations left; the allocation adds up to
\* MaxGrowth entries to it.
baa_attempt ==
    /\ pc = "baa_attempt"
    /\ Cardinality(outstanding) <= MaxOutstanding
    /\ \E count \in 1..MapCap, g \in 0..MaxGrowth :
         /\ IF mapCount = 0 THEN count <= MaxMapEntries ELSE count = mapCount
         /\ count + g <= MapCap
         /\ memory_map_reserved_size' = reserve(count)
         /\ bytes_for_this_allocation' =
                bytes_needed + memory_map_reserved_size' * MemoryMapEntrySize
         /\ attribute_array_address' = TruncU32(heap_top)
         /\ AllocPages(PagesForBytes(bytes_for_this_allocation'))
         /\ outstanding' = outstanding \cup {Region(heap_top, bytes_for_this_allocation')}
         /\ growth' = g
         /\ mapCount' = count + g
         /\ memory_map_size_new' = count + g
    /\ pc' = "baa_decide"
    /\ ev' = {"copy_map_query", "alloc"}
    /\ UNCHANGED <<fatal, phases, kvars, cvars, mvars, pvars, vvars,
                   cmdline_aligned_length, bytes_needed, array, attr_count,
                   map_entries_written, last_entry, snapshot_taken, tvars>>

\* Line 349: the attempt is kept.
commits_always(reserved, new) == TRUE
commits(reserved, new) == reserved >= new

\* Lines 349-354.  free_bytes gives the pages back; the map loses up to the
\* entries the allocation had added.
baa_decide ==
    /\ pc = "baa_decide"
    /\ IF commits(memory_map_reserved_size, memory_map_size_new)
       THEN /\ pc' = "baa_write"
            /\ ev' = {}
            /\ UNCHANGED <<heap_top, outstanding, mapCount, growth>>
       ELSE /\ pc' = "baa_attempt"
            /\ ev' = {"free"}
            /\ outstanding' = outstanding \ {Region(attribute_array_address, bytes_for_this_allocation)}
            /\ heap_top' =
                 IF attribute_array_address
                      + PagesForBytes(bytes_for_this_allocation) = heap_top
                 THEN attribute_array_address ELSE heap_top
            /\ \E shrink \in 0..growth : mapCount' = mapCount - shrink
            /\ growth' = 0
    /\ UNCHANGED <<fatal, phases, kvars, cvars, mvars, pvars, vvars,
                   cmdline_aligned_length, bytes_needed,
                   memory_map_reserved_size, bytes_for_this_allocation,
                   memory_map_size_new, attribute_array_address, array,
                   attr_count, map_entries_written, last_entry,
                   snapshot_taken, tvars>>

\* Lines 362-418: the value *attr_count ends with.
attr_count_one_per_kind(count, cmdline, fb) ==
    1 + 1 + B2I(count # 0) + B2I(cmdline) + B2I(fb) + 1
attr_count_written(count, cmdline, fb) ==
    1 + 1 + (IF count # 0 THEN count ELSE 0) + B2I(cmdline) + B2I(fb) + 1

\* Page of the framebuffer vs->set_mode reports.
FramebufferPage == 917504

\* Lines 357-418: the records written behind the array header, in order.
\* The COMMAND_LINE record tells where in it the text (line 394) and the
\* terminator (line 395) are stored.
records_written(table, count, cmdline, cmdline_len, text_len, fb, fb_addr, reserved) ==
    <<[type |-> "PLATFORM_INFO", size |-> PlatformInfoAttrSize],
      [type |-> "KERNEL_INFO", size |-> KernelInfoAttrSize]>>
    \o (IF count # 0 THEN SubSeq(table, 1, count) ELSE <<>>)
    \o (IF cmdline
        THEN <<[type |-> "COMMAND_LINE", size |-> cmdline_len,
                text_at |-> CommandLineAttrSize, text_len |-> text_len,
                nul_at |-> AttrHeaderSize + text_len]>>
        ELSE <<>>)
    \o (IF fb
        THEN <<[type |-> "FRAMEBUFFER_INFO", size |-> FramebufferAttrSize,
                physical_address |-> fb_addr]>>
        ELSE <<>>)
    \o <<[type |-> "MEMORY_MAP",
          size |-> reserved * MemoryMapEntrySize + MemoryMapAttrSize]>>

baa_write ==
    /\ pc = "baa_write"
    /\ \/ \* create_kernel_info_attribute: BUG_ON(path_str.size > 255)
          /\ fatal' = TRUE
          /\ pc' = "halted"
          /\ ev' = {"log"}
          /\ UNCHANGED <<array, attr_count>>
       \/ /\ array' = records_written(modules, module_count, cmdline_present,
                                      cmdline_aligned_length, cmdline_size,
                                      fb_present,
                                      rebase(FramebufferPage, fb_rebased),
                                      memory_map_reserved_size)
          /\ attr_count' = attr_count_written(module_count, cmdline_present,
                                              fb_present)
          /\ pc' = "baa_copy_map"
          /\ ev' = {}
          /\ fatal' = fatal
    /\ UNCHANGED <<phases, heap_top, kvars, cvars, mvars, pvars, vvars,
                   cmdline_aligned_length, bytes_needed,
                   memory_map_reserved_size, bytes_for_this_allocation,
                   memory_map_size_new, attribute_array_address,
                   map_entries_written, last_entry, outstanding,
                   fwvars, tvars>>

\* Memory types of the protocol (ultra_protocol.h).
ULTRA_MEMORY_TYPE_RESERVED == Type(0, 2)
ULTRA_MEMORY_TYPE_NVS == Type(0, 4)
ULTRA_MEMORY_TYPE_LOADER_RECLAIMABLE == Type(65535, 0)

\* Lines 272-285: the protocol entry written for a firmware entry.
ultra_memory_map_entry_convert_below_nvs(entry) ==
    MapEntry(entry.physical_address, entry.size_in_bytes,
             IF TypeLT(entry.type, ULTRA_MEMORY_TYPE_NVS) \/ TypeLE(ULTRA_MEMORY_TYPE_LOADER_RECLAIMABLE, entry.type)
             THEN entry.type ELSE ULTRA_MEMORY_TYPE_RESERVED)
ultra_memory_map_entry_convert(entry) ==
    MapEntry(entry.physical_address, entry.size_in_bytes,
             IF TypeLE(entry.type, ULTRA_MEMORY_TYPE_NVS) \/ TypeLE(ULTRA_MEMORY_TYPE_LOADER_RECLAIMABLE, entry.type)
             THEN entry.type ELSE ULTRA_MEMORY_TYPE_RESERVED)

\* Firmware entries of the whole-load specification (one free range), and
\* of the array specification: addresses and sizes in pages, below and above
\* 4 GiB, and types on both sides of the two thresholds.
LoadMapEntries == {MapEntry(0, 256, Type(0, 1))}
ArrayMapEntries == {MapEntry(r[1], r[2], Type(h, l)) : r \in {<<0, 1>>, <<1048576, 16>>}, h \in {0, 1, 65534, 65535}, l \in {0, 3, 4, 5, 65535}}

\* Lines 420-422: the final copy_map stores the map and the handover key;
\* `last_entry` keeps one of the entries it converted.
copy_map_step(Entries) ==
    /\ pc = "baa_copy_map"
    /\ \E entry \in Entries : last_entry' = [entry |-> entry, ue |-> ultra_memory_map_entry_convert(entry)]
    /\ map_entries_written' = Min(mapCount, memory_map_reserved_size)
    /\ snapshot_taken' = TRUE
    /\ Return({"copy_map"}, "array")
    /\ UNCHANGED <<heap_top, kvars, cvars, mvars, pvars, vvars,
                   cmdline_aligned_length, bytes_needed,
                   memory_map_reserved_size, bytes_for_this_allocation,
                   memory_map_size_new, attribute_array_address, array,
                   attr_count, outstanding, mapCount, growth,
                   tvars>>

baa_copy_map == copy_map_step(LoadMapEntries)

array_copy_map == copy_map_step(ArrayMapEntries)

(***************************************************************************)
(* ultra_protocol_load, lines 554-572: the firmware handover and the jump. *)
(***************************************************************************)
ulp_handover ==
    /\ pc = "handover"
    /\ \/ \* BUG_ON(!handover_res)
          /\ handover_res' = "failed"
          /\ fatal' = TRUE
          /\ pc' = "halted"
          /\ ev' = {"handover", "log"}
          /\ phases' = phases
       \/ /\ handover_res' = "ok"
          /\ Return({"handover"}, "handover")
    /\ UNCHANGED <<heap_top, kvars, cvars, mvars, pvars, vvars, bvars, fwvars,
                   jumped, jump_args, util>>

\* Lines 558-572: the rebase, the log line, then kernel_handover32 with the
\* (u32) of the array address, or kernel_handover64 with the page table.
ulp_jump ==
    /\ pc = "jump"
    /\ jumped' = IF kern.bitness = 32 THEN "32" ELSE "64"
    /\ LET stack == rebase(stack_address, kern.higher_half)
           arr == rebase(attribute_array_address, kern.higher_half)
       IN  jump_args' =
             IF kern.bitness = 32
             THEN [stack |-> stack, array |-> Physical(TruncU32(arr.page)),
                   pt |-> 0]
             ELSE [stack |-> stack, array |-> arr, pt |-> pt]
    /\ Return({"log", "jump"}, "jump")
    /\ UNCHANGED <<heap_top, kvars, cvars, mvars, pvars, vvars, bvars, fwvars,
                   handover_res, util>>

\* for (;;) of oops and panic (panic.c, lines 12 and 24).
hang ==
    /\ pc = "halted"
    /\ ev' = {}
    /\ UNCHANGED <<pc, fatal, phases, heap_top, kvars, cvars, mvars, pvars,
                   vvars, bvars, fwvars, tvars>>

Next ==
    \/ ulp_start
    \/ load_kernel
    \/ ulp_cmdline
    \/ ulp_modules
    \/ build_page_table
    \/ pick_stack
    \/ ulp_video
    \/ baa_begin
    \/ baa_attempt
    \/ baa_decide
    \/ baa_write
    \/ baa_copy_map
    \/ ulp_handover
    \/ ulp_jump
    \/ hang

Spec == Init /\ [][Next]_vars

\* The load path under the scheduling of a single thread of control: a step
\* that can be taken is taken.
FairSpec == Init /\ [][Next]_vars /\ WF_vars(Next)

(***************************************************************************)
(* set_video_mode on its own: the call of line 545 in the load of a 32-bit *)
(* kernel with no modules and no command line, with the video service      *)
(* listing up to MaxModes modes.                                           *)
(***************************************************************************)
InitVideo ==
    /\ pc = "video"
    /\ fatal = FALSE
    /\ ev = {"alloc"}
    /\ phases = <<"kernel", "modules", "page_table", "stack">>
    /\ heap_top = 256 + 1 + 2 * KernelFilePages
                  + CEILING_DIVIDE(DefaultStackSize, PAGE_SIZE)
    /\ kern \in elf_load(32, FALSE, 256 + 1 + KernelFilePages)
    /\ fse = "found"
    /\ bin_opts = NoBinOpts
    /\ bitness = 32
    /\ long_mode = "not_asked"
    /\ kernel_file = "open"
    /\ cmdline_present = FALSE
    /\ cmdline_size = 0
    /\ modules = <<>>
    /\ module_count = 0
    /\ modules_capacity = MODULES_PER_PAGE
    /\ module_idx = 0
    /\ module_file = "none"
    /\ pt = 0
    /\ pt_maps = <<>>
    /\ stack_address = heap_top
    /\ video_mode_val = NoVideoValue
    /\ rm = NoRequest
    /\ native_res = NoResolution
    /\ mode_list = <<>>
    /\ did_pick = FALSE
    /\ picked_vm = NoMode
    /\ set_mode_arg = 0
    /\ fb_present = FALSE
    /\ fb_rebased = FALSE
    /\ cmdline_aligned_length = 0
    /\ bytes_needed = 0
    /\ memory_map_reserved_size = 0
    /\ bytes_for_this_allocation = 0
    /\ memory_map_size_new = 0
    /\ attribute_array_address = 0
    /\ array = <<>>
    /\ attr_count = 0
    /\ map_entries_written = 0
    /\ mapCount = 0
    /\ growth = 0
    /\ snapshot_taken = FALSE
    /\ handover_res = "none"
    /\ jumped = "none"
    /\ jump_args = NoJumpArgs
    /\ cfg_store = <<>>
    /\ lookup = NoLookup
    /\ iter = 0
    /\ stack_cfg = StackAbsent
    /\ stack_pages = CEILING_DIVIDE(DefaultStackSize, PAGE_SIZE)
    /\ last_entry = NoEntryPair
    /\ outstanding = {}
    /\ util = NoUtil

NextVideo ==
    \/ picker_video
    \/ hang

SpecVideo == InitVideo /\ [][NextVideo]_vars

(***************************************************************************)
(* pick_stack on its own: the load of a 32-bit kernel without modules has  *)
(* reached pick_stack, and the entry's stack keys range over               *)
(* PickerStackCfgs.                                                        *)
(***************************************************************************)
InitStack ==
    /\ pc = "pick_stack"
    /\ fatal = FALSE
    /\ ev = {}
    /\ phases = <<"kernel", "modules", "page_table">>
    /\ heap_top = 256 + 1 + 2 * KernelFilePages
    /\ kern \in elf_load(32, FALSE, 256 + 1 + KernelFilePages)
    /\ fse = "found"
    /\ bin_opts = NoBinOpts
    /\ bitness = 32
    /\ long_mode = "not_asked"
    /\ kernel_file = "open"
    /\ cmdline_present = FALSE
    /\ cmdline_size = 0
    /\ modules = <<>>
    /\ module_count = 0
    /\ modules_capacity = MODULES_PER_PAGE
    /\ module_idx = 0
    /\ module_file = "none"
    /\ pt = 0
    /\ pt_maps = <<>>
    /\ stack_address = 0
    /\ video_mode_val = NoVideoValue
    /\ rm = NoRequest
    /\ native_res = NoResolution
    /\ mode_list = <<>>
    /\ did_pick = FALSE
    /\ picked_vm = NoMode
    /\ set_mode_arg = 0
    /\ fb_present = FALSE
    /\ fb_rebased = FALSE
    /\ cmdline_aligned_length = 0
    /\ bytes_needed = 0
    /\ memory_map_reserved_size = 0
    /\ bytes_for_this_allocation = 0
    /\ memory_map_size_new = 0
    /\ attribute_array_address = 0
    /\ array = <<>>
    /\ attr_count = 0
    /\ map_entries_written = 0
    /\ mapCount = 0
    /\ growth = 0
    /\ snapshot_taken = FALSE
    /\ handover_res = "none"
    /\ jumped = "none"
    /\ jump_args = NoJumpArgs
    /\ cfg_store = <<>>
    /\ lookup = NoLookup
    /\ iter = 0
    /\ stack_cfg = NoStackCfg
    /\ stack_pages = 0
    /\ last_entry = NoEntryPair
    /\ outstanding = {}
    /\ util = NoUtil

NextStack ==
    \/ picker_stack
    \/ hang

SpecStack == InitStack /\ [][NextStack]_vars

(***************************************************************************)
(* build_attribute_array on its own.  The load has reached the builder    *)
(* with a 32-bit or a 64-bit higher-half kernel and no module; the video   *)
(* step has set a mode or none; the command line is absent or has up to    *)
(* MaxArrayCmdLen characters; the allocator hands out pages below 4 GiB    *)
(* or, as the allocator of a 64-bit loader can, above.                     *)
(***************************************************************************)
ArrayLoads ==
    {[kern |-> CHOOSE k \in elf_load(32, FALSE, 256 + 1 + KernelFilePages) : TRUE,
      pt |-> 0, pt_maps |-> <<>>, long_mode |-> "not_asked",
      heap |-> 256 + 1 + 2 * KernelFilePages + CEILING_DIVIDE(DefaultStackSize, PAGE_SIZE)],
     [kern |-> CHOOSE k \in elf_load(64, FALSE, 256 + 1 + KernelFilePages) : k.higher_half,
      pt |-> 256 + 1 + 2 * KernelFilePages,
      pt_maps |-> page_table_mappings(CHOOSE k \in elf_load(64, FALSE, 256 + 1 + KernelFilePages) : k.higher_half),
      long_mode |-> "yes",
      heap |-> 256 + 1 + 2 * KernelFilePages + 1 + 12 + CEILING_DIVIDE(DefaultStackSize, PAGE_SIZE)]}

ArrayVideos ==
    {[val |-> [kind |-> "unset", width |-> -1, height |-> -1, bpp |-> -1, constraint |-> "absent"],
      none |-> TRUE, modes |-> <<>>, picked |-> NoMode, arg |-> 0, fb |-> FALSE],
     [val |-> [kind |-> "absent", width |-> -1, height |-> -1, bpp |-> -1, constraint |-> "absent"],
      none |-> FALSE, modes |-> <<[width |-> 1024, height |-> 768, bpp |-> 32, id |-> 1]>>,
      picked |-> [width |-> 1024, height |-> 768, bpp |-> 32, id |-> 1], arg |-> 1, fb |-> TRUE]}

InitArray ==
    /\ pc = "baa_begin"
    /\ fatal = FALSE
    /\ \E v \in ArrayVideos :
         /\ ev = IF v.fb THEN {"log", "query_resolution", "list_modes", "set_mode"} ELSE {}
         /\ video_mode_val = v.val
         /\ rm = [width |-> DEFAULT_WIDTH, height |-> DEFAULT_HEIGHT, bpp |-> DEFAULT_BPP, constraint |-> "AT_LEAST", none |-> v.none]
         /\ mode_list = v.modes
         /\ did_pick = v.fb
         /\ picked_vm = v.picked
         /\ set_mode_arg = v.arg
         /\ fb_present = v.fb
         /\ \E l \in ArrayLoads :
              /\ kern = l.kern
              /\ bitness = l.kern.bitness
              /\ long_mode = l.long_mode
              /\ pt = l.pt
              /\ pt_maps = l.pt_maps
              /\ stack_address = l.heap
              /\ heap_top \in {l.heap, 1048576 + l.heap}
              /\ fb_rebased = l.kern.higher_half
    /\ phases = <<"kernel", "modules", "page_table", "stack", "video">>
    /\ fse = "found"
    /\ bin_opts = NoBinOpts
    /\ kernel_file = "open"
    /\ cmdline_present \in BOOLEAN
    /\ cmdline_size \in IF cmdline_present THEN 0..MaxArrayCmdLen ELSE {0}
    /\ modules = <<>>
    /\ module_count = 0
    /\ modules_capacity = MODULES_PER_PAGE
    /\ module_idx = 0
    /\ module_file = "none"
    /\ native_res = [width |-> DEFAULT_WIDTH, height |-> DEFAULT_HEIGHT]
    /\ cmdline_aligned_length = 0
    /\ bytes_needed = 0
    /\ memory_map_reserved_size = 0
    /\ bytes_for_this_allocation = 0
    /\ memory_map_size_new = 0
    /\ attribute_array_address = 0
    /\ array = <<>>
    /\ attr_count = 0
    /\ map_entries_written = 0
    /\ mapCount = 0
    /\ growth = 0
    /\ snapshot_taken = FALSE
    /\ handover_res = "none"
    /\ jumped = "none"
    /\ jump_args = NoJumpArgs
    /\ cfg_store = <<>>
    /\ lookup = NoLookup
    /\ iter = 0
    /\ stack_cfg = StackAbsent
    /\ stack_pages = CEILING_DIVIDE(DefaultStackSize, PAGE_SIZE)
    /\ last_entry = NoEntryPair
    /\ outstanding = {}
    /\ util = NoUtil

NextArray ==
    \/ baa_begin
    \/ baa_attempt
    \/ baa_decide
    \/ baa_write
    \/ array_copy_map
    \/ ulp_handover
    \/ ulp_jump
    \/ hang

SpecArray == InitArray /\ [][NextArray]_vars

(***************************************************************************)
(* The typed lookups of the config store (config.h).  The store holds the  *)
(* entries of the global scope in parse order, each with its key and the   *)
(* type of its value; offsets are 1-based and 0 is "no more".              *)
(***************************************************************************)
CfgKeys == {"k", "j"}
ValueTypes == {"BOOLEAN", "UNSIGNED", "SIGNED", "STRING", "OBJECT"}
Stores == UNION {[1..n -> [key : CfgKeys, type : ValueTypes]] : n \in 0..MaxCfgEntries}

\* offset_to_next_within_same_scope of the entry at `off`.
next_in_scope(store, off) == IF off < Len(store) THEN off + 1 ELSE 0

\* The first entry with `key` on the sibling chain that starts at `off`.
RECURSIVE find_from(_, _, _)
find_from(store, off, key) ==
    IF off = 0 THEN 0
    ELSE IF store[off].key = key THEN off
    ELSE find_from(store, next_in_scope(store, off), key)

\* The first entry with `key` and a type in `types` behind the entry at
\* `off`; with `strict` an entry of another type ends the search in error.
RECURSIVE next_of(_, _, _, _, _)
next_of(store, off, key, types, strict) ==
    LET at == find_from(store, next_in_scope(store, off), key)
    IN  IF at = 0 THEN [at |-> 0, err |-> FALSE]
        ELSE IF store[at].type \in types THEN [at |-> at, err |-> FALSE]
        ELSE IF strict THEN [at |-> 0, err |-> TRUE]
        ELSE next_of(store, at, key, types, strict)

\* _cfg_get_bool, _unsigned, _signed, _string, _object at scope 0: the entry
\* found, the type of the value written, and whether the lookup ends in
\* oops (a second entry with the key when the key must be unique, or a
\* value of another type).
cfg_get_typed_duplicates_allowed(store, must_be_unique, key, T) ==
    LET at == find_from(store, IF store = <<>> THEN 0 ELSE 1, key)
        bad == at # 0 /\ store[at].type # T
    IN  [ok |-> at # 0 /\ ~bad, err |-> bad,
         at |-> IF at # 0 /\ ~bad THEN at ELSE 0,
         type |-> IF at # 0 /\ ~bad THEN T ELSE "NONE"]
cfg_get_typed(store, must_be_unique, key, T) ==
    LET at == find_from(store, IF store = <<>> THEN 0 ELSE 1, key)
        dup == at # 0 /\ find_from(store, next_in_scope(store, at), key) # 0
        bad == at # 0 /\ ((must_be_unique /\ dup) \/ store[at].type # T)
    IN  [ok |-> at # 0 /\ ~bad, err |-> bad,
         at |-> IF at # 0 /\ ~bad THEN at ELSE 0,
         type |-> IF at # 0 /\ ~bad THEN T ELSE "NONE"]

\* Lines 326-330: the function cfg_get_global_T expands to, by its type.
cfg_get_global_type(T) ==
    CASE T = "SIGNED" -> "UNSIGNED"
      [] T = "UNSIGNED" -> "SIGNED"
      [] OTHER -> T

\* A lookup `fn` for `key` and type `T`, made with the value at `from` in
\* hand, that yields `r`.
cfg_lookup_step(fn, key, T, from, r) ==
    /\ lookup' = [fn |-> fn, key |-> key, asked |-> T, from |-> from, ok |-> r.ok, err |-> r.err, type |-> r.type, at |-> r.at]
    /\ iter' = IF r.ok THEN r.at ELSE iter
    /\ fatal' = r.err
    /\ pc' = IF r.err THEN "halted" ELSE pc
    /\ ev' = IF r.err THEN {"log"} ELSE {}
    /\ UNCHANGED <<phases, heap_top, kvars, cmdline_present, cmdline_size, cfg_store, mvars, pvars, vvars, bvars, fwvars, tvars>>

\* cfg_get_T and cfg_get_first_T (lines 312-324).
cfg_get ==
    /\ pc = "config"
    /\ \E key \in CfgKeys, T \in ValueTypes : cfg_lookup_step("get", key, T, 0, cfg_get_typed(cfg_store, TRUE, key, T))

cfg_get_first ==
    /\ pc = "config"
    /\ \E key \in CfgKeys, T \in ValueTypes : cfg_lookup_step("get_first", key, T, 0, cfg_get_typed(cfg_store, FALSE, key, T))

\* cfg_get_next (line 309) with the value the last lookup returned.
cfg_get_next ==
    /\ pc = "config"
    /\ iter # 0
    /\ \E strict \in BOOLEAN :
         LET r == next_of(cfg_store, iter, cfg_store[iter].key, {cfg_store[iter].type}, strict)
         IN  cfg_lookup_step("get_next", cfg_store[iter].key, cfg_store[iter].type, iter, [ok |-> r.at # 0, err |-> r.err, at |-> r.at, type |-> IF r.at # 0 THEN cfg_store[r.at].type ELSE "NONE"])

\* cfg_get_global_T (lines 326-330).
cfg_get_global ==
    /\ pc = "config"
    /\ \E key \in CfgKeys, T \in ValueTypes : cfg_lookup_step("get_global", key, T, 0, cfg_get_typed(cfg_store, TRUE, key, cfg_get_global_type(T)))

InitConfig ==
    /\ pc = "config"
    /\ fatal = FALSE
    /\ ev = {}
    /\ phases = <<>>
    /\ heap_top = 256
    /\ kern = NoBinInfo
    /\ fse = "unset"
    /\ bin_opts = NoBinOpts
    /\ bitness = -1
    /\ long_mode = "not_asked"
    /\ kernel_file = "none"
    /\ cmdline_present = FALSE
    /\ cmdline_size = 0
    /\ modules = <<>>
    /\ module_count = 0
    /\ modules_capacity = 0
    /\ module_idx = 0
    /\ module_file = "none"
    /\ pt = 0
    /\ pt_maps = <<>>
    /\ stack_address = 0
    /\ video_mode_val = NoVideoValue
    /\ rm = NoRequest
    /\ native_res = NoResolution
    /\ mode_list = <<>>
    /\ did_pick = FALSE
    /\ picked_vm = NoMode
    /\ set_mode_arg = 0
    /\ fb_present = FALSE
    /\ fb_rebased = FALSE
    /\ cmdline_aligned_length = 0
    /\ bytes_needed = 0
    /\ memory_map_reserved_size = 0
    /\ bytes_for_this_allocation = 0
    /\ memory_map_size_new = 0
    /\ attribute_array_address = 0
    /\ array = <<>>
    /\ attr_count = 0
    /\ map_entries_written = 0
    /\ mapCount = 0
    /\ growth = 0
    /\ snapshot_taken = FALSE
    /\ handover_res = "none"
    /\ jumped = "none"
    /\ jump_args = NoJumpArgs
    /\ cfg_store \in Stores
    /\ lookup = NoLookup
    /\ iter = 0
    /\ stack_cfg = NoStackCfg
    /\ stack_pages = 0
    /\ last_entry = NoEntryPair
    /\ outstanding = {}
    /\ util = NoUtil

NextConfig ==
    \/ cfg_get
    \/ cfg_get_first
    \/ cfg_get_next
    \/ cfg_get_global
    \/ hang

SpecConfig == InitConfig /\ [][NextConfig]_vars

(***************************************************************************)
(* The utility functions (helpers.h, Utilities.h), each applied to inputs  *)
(* drawn from bounded sets.                                                *)
(***************************************************************************)
\* Dividends: small ones, those around a page, and a large one that leaves
\* room for a page below the largest integer TLC has (2^31 - 1).
DivideXs == (0..MaxDividend) \cup {PAGE_SIZE - 1, PAGE_SIZE, PAGE_SIZE + 1, 2147479551}
DivideYs == (1..MaxDivisor) \cup {PAGE_SIZE}

util_ceiling_divide ==
    /\ pc = "util" /\ util = NoUtil
    /\ \E x \in DivideXs, y \in DivideYs :
         util' = [fn |-> "CEILING_DIVIDE", x |-> x, y |-> y, steps |-> ceiling_divide_steps(x, y), result |-> CEILING_DIVIDE(x, y)]
    /\ ev' = {}
    /\ UNCHANGED <<pc, fatal, phases, heap_top, kvars, cvars, mvars, pvars, vvars, bvars, fwvars, handover_res, jumped, jump_args>>

\* Utilities.h, lines 39-72.  Positions count from 0 as begin[...] does;
\* the position Len(range) is `end`.
RECURSIVE lower_bound_loop(_, _, _, _, _)
lower_bound_loop(range, key, left, right, bound) ==
    IF left > right THEN bound
    ELSE LET pivot == left + (right - left) \div 2
             pivot_value == range[pivot + 1]
         IN  IF key < pivot_value
             THEN lower_bound_loop(range, key, left, pivot - 1, pivot)
             ELSE IF pivot_value < key
             THEN lower_bound_loop(range, key, pivot + 1, right, bound)
             ELSE pivot

lower_bound(range, key) ==
    IF Len(range) = 0 THEN Len(range)
    ELSE lower_bound_loop(range, key, 0, Len(range) - 1, Len(range))

\* The ranges sorted by Less<>, with repeated elements.
SortedRanges == {r \in UNION {[1..n -> 0..MaxKey] : n \in 0..MaxRange} : \A i \in 1..Len(r) - 1 : ~(r[i + 1] < r[i])}

util_lower_bound ==
    /\ pc = "util" /\ util = NoUtil
    /\ \E range \in SortedRanges, key \in 0..MaxKey :
         util' = [fn |-> "lower_bound", range |-> range, key |-> key, result |-> lower_bound(range, key)]
    /\ ev' = {}
    /\ UNCHANGED <<pc, fatal, phases, heap_top, kvars, cvars, mvars, pvars, vvars, bvars, fwvars, handover_res, jumped, jump_args>>

\* Utilities.h, lines 109-116: bytes are copied one by one, lowest first.
\* `mem` is the memory, `src` and `dst` are the two pointers (positions of
\* mem, from 1).
RECURSIVE copy_memory(_, _, _, _)
copy_memory(mem, src, dst, size) ==
    IF size = 0 THEN mem
    ELSE copy_memory([mem EXCEPT ![dst] = mem[src]], src + 1, dst + 1, size - 1)

\* Lines 127-128: *--byte_dst = *--byte_src, highest byte first.
RECURSIVE copy_down(_, _, _, _)
copy_down(mem, src, dst, size) ==
    IF size = 0 THEN mem
    ELSE copy_down([mem EXCEPT ![dst - 1] = mem[src - 1]], src - 1, dst - 1, size - 1)

\* Lines 118-131.
move_memory_lowest_first(mem, source, destination, size) ==
    copy_memory(mem, source, destination, size)
move_memory(mem, source, destination, size) ==
    IF source < destination
    THEN copy_down(mem, source + size, destination + size, size)
    ELSE copy_memory(mem, source, destination, size)

util_move_memory ==
    /\ pc = "util" /\ util = NoUtil
    /\ \E mem \in [1..MemSize -> 0..MaxByte], source \in 1..MemSize, destination \in 1..MemSize, size \in 0..MemSize :
         /\ source + size <= MemSize + 1
         /\ destination + size <= MemSize + 1
         /\ util' = [fn |-> "move_memory", before |-> mem, source |-> source, destination |-> destination, size |-> size, after |-> move_memory(mem, source, destination, size)]
    /\ ev' = {}
    /\ UNCHANGED <<pc, fatal, phases, heap_top, kvars, cvars, mvars, pvars, vvars, bvars, fwvars, handover_res, jumped, jump_args>>

\* a | b of two numbers below 2^bits.
RECURSIVE BitOr(_, _, _)
BitOr(a, b, bits) ==
    IF bits = 0 THEN 0
    ELSE (IF a % 2 = 1 \/ b % 2 = 1 THEN 1 ELSE 0) + 2 * BitOr(a \div 2, b \div 2, bits - 1)

\* Lines 145-148: (static_cast<u32>(segment) << 4) | offset.  A 16-bit
\* segment shifted by 4 has 20 bits, so the u32 loses none of them.
real_mode_address(segment, offset) == BitOr(segment * 16, offset, 20)

\* 16-bit segments and offsets: the ends of the range, powers of two and
\* values with bits in common with a shifted segment.
WordValues == {0, 1, 2, 15, 16, 17, 255, 256, 4095, 4096, 32768, 65535}

util_real_mode_address ==
    /\ pc = "util" /\ util = NoUtil
    /\ \E segment \in WordValues, offset \in WordValues :
         util' = [fn |-> "real_mode_address", segment |-> segment, offset |-> offset, result |-> real_mode_address(segment, offset)]
    /\ ev' = {}
    /\ UNCHANGED <<pc, fatal, phases, heap_top, kvars, cvars, mvars, pvars, vvars, bvars, fwvars, handover_res, jumped, jump_args>>

InitUtil ==
    /\ pc = "util"
    /\ fatal = FALSE
    /\ ev = {}
    /\ phases = <<>>
    /\ heap_top = 256
    /\ kern = NoBinInfo
    /\ fse = "unset"
    /\ bin_opts = NoBinOpts
    /\ bitness = -1
    /\ long_mode = "not_asked"
    /\ kernel_file = "none"
    /\ cmdline_present = FALSE
    /\ cmdline_size = 0
    /\ modules = <<>>
    /\ module_count = 0
    /\ modules_capacity = 0
    /\ module_idx = 0
    /\ module_file = "none"
    /\ pt = 0
    /\ pt_maps = <<>>
    /\ stack_address = 0
    /\ video_mode_val = NoVideoValue
    /\ rm = NoRequest
    /\ native_res = NoResolution
    /\ mode_list = <<>>
    /\ did_pick = FALSE
    /\ picked_vm = NoMode
    /\ set_mode_arg = 0
    /\ fb_present = FALSE
    /\ fb_rebased = FALSE
    /\ cmdline_aligned_length = 0
    /\ bytes_needed = 0
    /\ memory_map_reserved_size = 0
    /\ bytes_for_this_allocation = 0
    /\ memory_map_size_new = 0
    /\ attribute_array_address = 0
    /\ array = <<>>
    /\ attr_count = 0
    /\ map_entries_written = 0
    /\ mapCount = 0
    /\ growth = 0
    /\ snapshot_taken = FALSE
    /\ handover_res = "none"
    /\ jumped = "none"
    /\ jump_args = NoJumpArgs
    /\ cfg_store = <<>>
    /\ lookup = NoLookup
    /\ iter = 0
    /\ stack_cfg = NoStackCfg
    /\ stack_pages = 0
    /\ last_entry = NoEntryPair
    /\ outstanding = {}
    /\ util = NoUtil

NextUtil ==
    \/ util_ceiling_divide
    \/ util_lower_bound
    \/ util_move_memory
    \/ util_real_mode_address

SpecUtil == InitUtil /\ [][NextUtil]_vars

(***************************************************************************)
(* Properties.                                                             *)
(***************************************************************************)
Range(f) == {f[i] : i \in DOMAIN f}
IsPrefix(a, b) == Len(a) <= Len(b) /\ \A i \in 1..Len(a) : a[i] = b[i]
Types(records) == [i \in 1..Len(records) |-> records[i].type]
Repeat(x, n) == [i \in 1..n |-> x]

RECURSIVE SumOfSizes(_)
SumOfSizes(records) ==
    IF records = <<>> THEN 0
    ELSE records[1].size + SumOfSizes(Tail(records))

AllocatorOps == {"alloc", "free"}
ArrayBuilt == pc \in {"baa_copy_map", "handover", "jump", "jumped"}
                 \/ snapshot_taken

\* C1: once the final copy_map of build_attribute_array has stored the
\* memory-map snapshot and the handover key, no step up to and including
\* the jump allocates or frees; the kernel, module, page-table and stack
\* phases are complete when the snapshot is taken.
C1_NoAllocatorOpAfterSnapshot ==
    snapshot_taken =>
        /\ ev \cap AllocatorOps = {}
        /\ {"kernel", "modules", "page_table", "stack"} \subseteq Range(phases)

C1_Witness == snapshot_taken /\ jumped # "none"

\* C2: an attempt of the loop is committed exactly when the entry count
\* queried after the allocation is at most the reservation, which is the
\* count queried before the allocation plus 1; so the map has at most the
\* reserved number of entries when the final copy_map is called.
C2_CommitIffWithinReservation ==
    /\ pc = "baa_decide" =>
          memory_map_reserved_size = (mapCount - growth) + 1
    /\ pc = "baa_write" => memory_map_size_new <= memory_map_reserved_size
    /\ (pc = "baa_attempt" /\ "free" \in ev) =>
          memory_map_size_new > memory_map_reserved_size
    /\ pc \in {"baa_write", "baa_copy_map"} =>
          mapCount <= memory_map_reserved_size

C2_Witness ==
    /\ pc = "baa_copy_map"
    /\ growth = 1
    /\ mapCount = memory_map_reserved_size

\* C3: the allocate / measure / retry loop of build_attribute_array ends:
\* every run that enters the loop reaches a committed attempt.
C3_LoopTerminates == (pc = "baa_attempt") ~> (pc = "baa_write")

\* C4: the phases of ultra_protocol_load run in the one order kernel,
\* modules, page table, stack, video, attribute array, handover, jump, none
\* skipped or repeated; the handover is called only after the array is
\* complete, and the jump only after the handover.
PhaseOrder == <<"kernel", "modules", "page_table", "stack", "video", "array",
                "handover", "jump">>

C4_PhasesInOrder ==
    /\ IsPrefix(phases, PhaseOrder)
    /\ handover_res # "none" => snapshot_taken
    /\ jumped # "none" => (handover_res = "ok" /\ phases = PhaseOrder)

C4_Witness == jumped = "64" /\ phases = PhaseOrder /\ module_count > 0

\* C5: once a fatal error is raised the loader stays halted: no later step
\* allocates, frees, sets a video mode, hands over or jumps; and a failed
\* ms->handover is fatal, so no jump follows it.
C5_FatalIsFinal ==
    [][/\ fatal =>
            /\ fatal'
            /\ pc' = "halted"
            /\ ev' \cap {"alloc", "free", "set_mode", "handover", "jump"} = {}
            /\ jumped' = jumped
            /\ heap_top' = heap_top
       /\ handover_res' = "failed" => (fatal' /\ jumped' = "none")]_vars

C5_Witness ==
    /\ fatal
    /\ handover_res = "failed"
    /\ pc = "halted"
    /\ ev = {}
    /\ jumped = "none"

\* C6: the records of the built array are, in this order, PLATFORM_INFO,
\* KERNEL_INFO, one MODULE_INFO per module, COMMAND_LINE if a command line
\* is present, FRAMEBUFFER_INFO if a mode was set, MEMORY_MAP.
C6_RecordOrder ==
    ArrayBuilt =>
        Types(array) =
            <<"PLATFORM_INFO", "KERNEL_INFO">>
            \o Repeat("MODULE_INFO", module_count)
            \o (IF cmdline_present THEN <<"COMMAND_LINE">> ELSE <<>>)
            \o (IF fb_present THEN <<"FRAMEBUFFER_INFO">> ELSE <<>>)
            \o <<"MEMORY_MAP">>

\* C7: attribute_count equals the number of records written, which is
\* 3 + module_count + 1 for a command line + 1 for a framebuffer.
C7_CountMatchesRecords ==
    ArrayBuilt =>
        /\ attr_count = Len(array)
        /\ attr_count = 3 + module_count + B2I(cmdline_present)
                          + B2I(fb_present)

C7_Witness ==
    /\ ArrayBuilt
    /\ module_count >= MODULES_PER_PAGE
    /\ cmdline_present
    /\ fb_present

\* C8: the byte count requested for the committed attempt equals the
\* 8-byte array header plus the size_in_bytes of every record written.
C8_AllocationCoversRecords ==
    ArrayBuilt =>
        bytes_for_this_allocation = SizeofU32 + SizeofU32 + SumOfSizes(array)

\* The modes of the list that satisfy the request.
ExactMatches == {i \in 1..Len(mode_list) : VM_EQUALS(mode_list[i], rm)}
AtLeastMatches ==
    {i \in 1..Len(mode_list) :
        /\ mode_list[i].width >= rm.width
        /\ mode_list[i].height >= rm.height
        /\ mode_list[i].bpp >= rm.bpp
        /\ mode_list[i].width <= native_res.width
        /\ mode_list[i].height <= native_res.height}
Least(S) == CHOOSE x \in S : \A y \in S : x <= y
Greatest(S) == CHOOSE x \in S : \A y \in S : x >= y

\* C9: under "exactly" the mode handed to vs->set_mode is the first mode of
\* the list equal to the request; with no equal mode the load is fatal and
\* vs->set_mode is not called.
C9_ExactlyPicksFirstEqual ==
    (pc # "video" /\ ~rm.none /\ rm.constraint = "EXACTLY") =>
        IF ExactMatches = {}
        THEN fatal /\ set_mode_arg = 0
        ELSE set_mode_arg = Least(ExactMatches)

\* C10: under "at-least" the mode handed to vs->set_mode is the last mode
\* of the list that is >= the request in width, height and bpp and <= the
\* native resolution in width and height; with no such mode the load is
\* fatal and vs->set_mode is not called.
C10_AtLeastPicksLastCandidate ==
    (pc # "video" /\ ~rm.none /\ rm.constraint = "AT_LEAST") =>
        IF AtLeastMatches = {}
        THEN fatal /\ set_mode_arg = 0
        ELSE /\ set_mode_arg = Greatest(AtLeastMatches)
             /\ picked_vm = mode_list[Greatest(AtLeastMatches)]

C10_Witness ==
    /\ pc = "baa_begin"
    /\ rm = [width |-> 1024, height |-> 768, bpp |-> 32,
             constraint |-> "AT_LEAST", none |-> FALSE]
    /\ native_res = [width |-> 1920, height |-> 1080]
    /\ Len(mode_list) = 3
    /\ mode_list[1].width = 800
    /\ mode_list[2].width = 1024
    /\ mode_list[3].width = 1920
    /\ AtLeastMatches = {2, 3}
    /\ set_mode_arg = 3
    /\ fb_present

Done(phase) == phase \in Range(phases)

\* The records build_attribute_array writes itself, that is all but the
\* module slots it copies from the module table.
BuilderRecords ==
    {array[i] : i \in {j \in 1..Len(array) : j <= 2 \/ j > 2 + module_count}}

\* C11: when `video-mode` is null or the string "unset", set_video_mode
\* asks the video service neither for the resolution or the mode list nor
\* to set a mode, returns false (no framebuffer), and the attribute array
\* is built without a FRAMEBUFFER_INFO record.
C11_NullRequestSetsNoMode ==
    video_mode_val.kind \in {"null", "unset"} =>
        /\ Done("video")
        /\ ~fb_present
        /\ set_mode_arg = 0
        /\ mode_list = <<>>
        /\ ev \cap {"query_resolution", "list_modes", "set_mode"} = {}
        /\ ArrayBuilt =>
              /\ \A r \in BuilderRecords : r.type # "FRAMEBUFFER_INFO"
              /\ Len(array) = 3 + module_count + B2I(cmdline_present)

C11_Witness ==
    /\ video_mode_val.kind = "unset"
    /\ jumped # "none"
    /\ module_count > 0
    /\ cmdline_present

\* C12: after vs->set_mode has succeeded, no step on the way to the jump
\* writes to the log.
C12_NoLogAfterVideoSet ==
    (fb_present /\ ~fatal /\ "set_mode" \notin ev) => "log" \notin ev

\* C13: the stack address and the attribute-array address handed to the
\* kernel, and the framebuffer address in the FRAMEBUFFER_INFO record, are
\* the physical address plus DIRECT_MAP_BASE if the entry point is at or
\* above HIGHER_HALF_BASE and the physical address itself if it is not;
\* the array is written at the physical address.
C13_KernelVisibleAddresses ==
    /\ jumped # "none" =>
          /\ jump_args.stack.page = stack_address
          /\ jump_args.array.page = attribute_array_address
          /\ jump_args.stack.base = jump_args.array.base
          /\ jump_args.stack.base = "DIRECT_MAP_BASE" <=> kern.higher_half
          /\ jump_args.stack.base = "0" <=> ~kern.higher_half
    /\ (ArrayBuilt /\ fb_present) =>
          \E i \in 1..Len(array) :
             /\ i > 2 + module_count
             /\ array[i].type = "FRAMEBUFFER_INFO"
             /\ array[i].physical_address.page = FramebufferPage
             /\ array[i].physical_address.base =
                    (IF kern.higher_half THEN "DIRECT_MAP_BASE" ELSE "0")

C13_Witness ==
    /\ jumped = "64"
    /\ kern.higher_half
    /\ fb_present
    /\ jump_args.array = DirectMapped(attribute_array_address)

IdentityMap == [virtual |-> [base |-> "0", page |-> 0], physical |-> 0,
                pages |-> 1048576, huge |-> TRUE]
DirectMap == [virtual |-> [base |-> "DIRECT_MAP_BASE", page |-> 0],
              physical |-> 0, pages |-> 1048576, huge |-> TRUE]
HigherHalfWindow == [virtual |-> [base |-> "HIGHER_HALF_BASE", page |-> 0],
                     physical |-> 0, pages |-> 524288, huge |-> TRUE]

\* C14: for a 64-bit kernel whose range is direct mapped, the page table
\* holds the identity map of 0..4 GiB and the direct map of 0..4 GiB at
\* DIRECT_MAP_BASE and no further mapping.
C14_OnlyIdentityAndDirectMap ==
    (kern.bitness = 64 /\ kern.kernel_range_is_direct_map
        /\ Done("page_table")) =>
        pt_maps = <<IdentityMap, DirectMap>>

\* C14, amended: for such a kernel the page table holds the identity map,
\* the direct map and one further huge-page mapping of physical 0..2 GiB at
\* HIGHER_HALF_BASE; it holds no 4 KiB mapping of the kernel range.
C14_DirectMapAddsHigherHalfWindow ==
    (kern.bitness = 64 /\ kern.kernel_range_is_direct_map
        /\ Done("page_table")) =>
        /\ pt_maps = <<IdentityMap, DirectMap, HigherHalfWindow>>
        /\ \A i \in 1..Len(pt_maps) : pt_maps[i].huge

C14_Witness ==
    /\ kern.bitness = 64
    /\ kern.kernel_range_is_direct_map
    /\ jumped = "64"
    /\ Len(pt_maps) = 3

\* C15: for a 64-bit kernel whose range is not direct mapped, the page
\* table holds, after the identity map and the direct map, the 4 KiB
\* mapping of ceil((physical_ceiling - physical_base) / PAGE_SIZE) pages
\* from virtual_base to physical_base.
C15_KernelRangeMapped ==
    (kern.bitness = 64 /\ ~kern.kernel_range_is_direct_map
        /\ Done("page_table")) =>
        pt_maps = <<IdentityMap, DirectMap,
                    [virtual |-> kern.virtual_base,
                     physical |-> kern.physical_base,
                     pages |-> (kern.range_length + PAGE_SIZE - 1)
                                  \div PAGE_SIZE,
                     huge |-> FALSE]>>

C15_Witness ==
    /\ kern.bitness = 64
    /\ ~kern.kernel_range_is_direct_map
    /\ kern.range_length % PAGE_SIZE # 0
    /\ kern.virtual_base.base = "HIGHER_HALF_BASE"
    /\ Done("page_table")
    /\ pt_maps[3].pages = KernelFilePages + 1

\* C16: elf_load is called only for an image of bitness 32 or 64, with
\* allocate-anywhere only for a 64-bit image and a 64-bit image only on a
\* CPU with long mode; any other image is a fatal error before elf_load,
\* and no binary info is produced.
C16_ElfLoadOnlyForAcceptedImage ==
    LET bad == \/ bitness \notin {32, 64}
               \/ (bin_opts.allocate_anywhere /\ bitness # 64)
               \/ (bitness = 64 /\ long_mode # "yes")
    IN  bitness # -1 =>
          /\ "elf_load" \in ev => ~bad
          /\ bad => (fatal /\ pc = "halted" /\ kern = NoBinInfo
                        /\ "elf_load" \notin ev)

C16_Witness ==
    /\ bitness = 64
    /\ long_mode = "no"
    /\ fatal
    /\ pc = "halted"
    /\ kern = NoBinInfo

\* C17: when fs_by_full_path finds no filesystem for the kernel path,
\* load_kernel ends in the fatal halt; it neither calls open nor uses the
\* missing entry.
C17_MissingFilesystemIsFatal ==
    fse = "null" =>
        /\ fatal
        /\ pc = "halted"
        /\ ev \cap {"open", "null_deref"} = {}

\* C18: after the module loop the module table holds one MODULE_INFO
\* record per `module` key, record i with the address and the length of
\* the i-th module, also when the table has grown; the MODULE_INFO records
\* of the attribute array are these records in this order.
C18_ModuleTableInOrder ==
    Done("modules") =>
        /\ Len(modules) = module_count
        /\ \A i \in 1..module_count :
              /\ modules[i].type = "MODULE_INFO"
              /\ modules[i].size = ModuleInfoAttrSize
              /\ modules[i].length = ModuleFileSize(i)
              /\ modules[i].physical_address # 0
              /\ i > 1 => modules[i].physical_address
                             > modules[i - 1].physical_address
        /\ ArrayBuilt => SubSeq(array, 3, 2 + module_count) = modules

\* C19: the name of the i-th MODULE_INFO record of the array is the name
\* the config gives the module, or "unnamed_module<i>" when it gives none.
C19_ModuleNames ==
    ArrayBuilt =>
        \A i \in 1..module_count :
            array[2 + i].name =
                IF ModuleConfigName(i) # "" THEN ModuleConfigName(i)
                ELSE "unnamed_module" \o ToString(i)

\* C20: no file handle is open once the function that opened it has read
\* the file and returned: none when the next file is opened, none at the
\* handover.
C20_FilesClosedAfterRead ==
    ~fatal => (kernel_file # "open" /\ module_file # "open")

\* C21: when the `stack` value is an object, pick_stack takes allocate-at
\* and size from the keys inside that object (anywhere for "anywhere", the
\* default size for "auto"), and keys of these names outside the object have
\* no effect, neither on the stack nor on whether the load goes on.
C21_StackObjectKeysUsed ==
    (pc \in {"video", "halted"} /\ stack_cfg.stack = "object") =>
        LET at == stack_cfg.in_at
            sz == stack_cfg.in_size
            pages == CEILING_DIVIDE(IF sz.t = "unsigned" THEN sz.u ELSE DefaultStackSize, PAGE_SIZE)
            refused == \/ at.t = "string" /\ at.s # "anywhere"
                       \/ sz.t = "string" /\ sz.s # "auto"
        IN  /\ fatal <=> refused
            /\ ~fatal =>
                  /\ stack_pages = pages
                  /\ stack_address = IF at.t = "unsigned" THEN at.u + pages
                                     ELSE heap_top

\* C22: ultra_memory_map_entry_convert copies physical_address and
\* size_in_bytes of a firmware entry unchanged, keeps the firmware type when
\* it is <= NVS (4) or >= LOADER_RECLAIMABLE (0xFFFF0000), and writes
\* RESERVED (2) for every other type.
C22_EntryConversion ==
    snapshot_taken =>
        LET entry == last_entry.entry
            ue == last_entry.ue
            passes == (entry.type.hi = 0 /\ entry.type.lo <= 4) \/ entry.type.hi = 65535
        IN  /\ ue.physical_address = entry.physical_address
            /\ ue.size_in_bytes = entry.size_in_bytes
            /\ passes => ue.type = entry.type
            /\ ~passes => ue.type = Type(0, 2)

\* An entry of type NVS, above 4 GiB, has been converted and kept its type.
C22_Witness ==
    /\ snapshot_taken
    /\ last_entry.entry.type = ULTRA_MEMORY_TYPE_NVS
    /\ last_entry.entry.physical_address = 1048576
    /\ last_entry.ue.type = ULTRA_MEMORY_TYPE_NVS

\* The entry holds nothing but `binary`: no cmdline, module, stack or
\* video-mode key.
OnlyBinary ==
    /\ ~cmdline_present
    /\ module_count = 0
    /\ stack_cfg = StackAbsent
    /\ video_mode_val.kind = "absent"

\* C23 (as claimed): for an entry that holds only `binary` and a 32-bit ELF
\* the loader jumps via kernel_handover32 with no page table built, and the
\* attribute array holds exactly PLATFORM_INFO, KERNEL_INFO and MEMORY_MAP.
C23_MinimalConfigThreeRecords ==
    (jumped # "none" /\ OnlyBinary /\ kern.bitness = 32) =>
        /\ jumped = "32"
        /\ pt = 0 /\ pt_maps = <<>> /\ jump_args.pt = 0
        /\ Types(array) = <<"PLATFORM_INFO", "KERNEL_INFO", "MEMORY_MAP">>

\* C23 (amended): for an entry that holds only `binary` and a 32-bit ELF a
\* load that reaches the jump goes via kernel_handover32 with no page table
\* built; the missing `video-mode` key asks for the default mode, so the
\* attribute array holds exactly PLATFORM_INFO, KERNEL_INFO,
\* FRAMEBUFFER_INFO and MEMORY_MAP; it holds exactly PLATFORM_INFO,
\* KERNEL_INFO and MEMORY_MAP when the entry also has `video-mode` null or
\* "unset".
C23_MinimalConfigDefaultVideo ==
    (jumped # "none" /\ ~cmdline_present /\ module_count = 0 /\ stack_cfg = StackAbsent /\ kern.bitness = 32) =>
        /\ jumped = "32"
        /\ pt = 0 /\ pt_maps = <<>> /\ jump_args.pt = 0
        /\ video_mode_val.kind = "absent" =>
              /\ rm = NoRequest
              /\ Types(array) = <<"PLATFORM_INFO", "KERNEL_INFO", "FRAMEBUFFER_INFO", "MEMORY_MAP">>
        /\ video_mode_val.kind \in {"null", "unset"} =>
              Types(array) = <<"PLATFORM_INFO", "KERNEL_INFO", "MEMORY_MAP">>

C23_Witness ==
    /\ jumped = "32"
    /\ OnlyBinary
    /\ kern.bitness = 32
    /\ fb_present
    /\ Len(array) = 4

\* C27: with a command line of length L the COMMAND_LINE record's
\* size_in_bytes is the smallest multiple of 8 that is >= 8 + L + 1, the
\* text starts behind the record header and its NUL terminator follows it
\* inside the record, and the record after it starts at an offset of the
\* array that is a multiple of 8; without a command line there is no such
\* record and it contributes 0 bytes.
C27_CommandLineRecord ==
    (array # <<>>) =>
        LET at == {i \in 1..Len(array) : array[i].type = "COMMAND_LINE"}
        IN  IF cmdline_present
            THEN /\ Cardinality(at) = 1
                 /\ \A i \in at :
                      LET r == array[i]
                          L == cmdline_size
                      IN  /\ r.size % 8 = 0
                          /\ r.size >= 8 + L + 1
                          /\ r.size - 8 < 8 + L + 1
                          /\ r.text_at = 8 /\ r.text_len = L
                          /\ r.nul_at = r.text_at + L
                          /\ r.nul_at < r.size
                          /\ (SizeofU64 + SumOfSizes(SubSeq(array, 1, i))) % 8 = 0
                          /\ bytes_needed = static_bytes_needed(module_count, 0, fb_present) + r.size
            ELSE /\ at = {}
                 /\ cmdline_aligned_length = 0
                 /\ bytes_needed = static_bytes_needed(module_count, 0, fb_present)

\* A command line of 7 characters: 8 + 7 + 1 = 16 bytes, no padding.
C27_Witness ==
    /\ jumped # "none"
    /\ cmdline_present
    /\ cmdline_size = 7
    /\ \E i \in 1..Len(array) : array[i].type = "COMMAND_LINE" /\ array[i].size = 16 /\ array[i].nul_at = 15

\* The array has been committed and the load has not halted.
Committed == pc \in {"baa_write", "baa_copy_map", "handover", "jump", "jumped"}

\* C26: an attempt of the build_attribute_array loop that is not committed
\* frees exactly the region it allocated (same address, same byte count), so
\* no array region is outstanding when the next attempt starts and exactly
\* one, that of the committed attempt, is outstanding from the commit on
\* (two allocations and one free when the second attempt commits).
C26_FailedAttemptsFreed ==
    /\ pc = "baa_attempt" => outstanding = {}
    /\ Committed => Cardinality(outstanding) = 1

\* C28: every byte build_attribute_array writes, the count, the records and
\* the memory-map entries the final copy_map stores, lies inside the region
\* the allocator gave for the committed attempt, that is within the
\* requested bytes rounded up to whole pages.
C28_WritesInsideAllocation ==
    snapshot_taken =>
        LET n == Len(array)
            written == SizeofU64 + SumOfSizes(SubSeq(array, 1, n - 1)) + AttrHeaderSize + map_entries_written * MemoryMapEntrySize
        IN  written <= PagesForBytes(bytes_for_this_allocation) * PAGE_SIZE

\* C29: the number of entries the MEMORY_MAP record declares,
\* (size_in_bytes - record header size) / entry size, is the number of
\* entries the final copy_map wrote into the record.
C29_DeclaredEntriesWritten ==
    snapshot_taken =>
        LET r == array[Len(array)]
        IN  /\ r.type = "MEMORY_MAP"
            /\ (r.size - MemoryMapAttrSize) \div MemoryMapEntrySize = map_entries_written

\* C30: the attribute-array address kept in handover_info, where the array
\* is written and which the kernel is given, is the address
\* allocate_critical_bytes returned, also for an address of 4 GiB and more.
C30_ArrayAddressNotTruncated ==
    /\ (pc = "baa_decide" \/ Committed) => Region(attribute_array_address, bytes_for_this_allocation) \in outstanding
    /\ (jumped = "64" /\ ~kern.higher_half) => Region(jump_args.array.page, bytes_for_this_allocation) \in outstanding

\* The offsets of the entries of the global scope that have `key`.
EntriesOf(key) == {i \in 1..Len(cfg_store) : cfg_store[i].key = key}

\* C24: each global-scope lookup cfg_get_global_T, for T bool, signed,
\* unsigned, string or object, is the unique lookup for T at scope 0: it
\* returns true only when the single global entry with the key has a value
\* of type T, and the value it writes has type T.
C24_GlobalLookupType ==
    (lookup.fn = "get_global" /\ lookup.ok) =>
        /\ EntriesOf(lookup.key) = {lookup.at}
        /\ cfg_store[lookup.at].type = lookup.asked
        /\ lookup.type = lookup.asked

\* C25: in a scope with two entries of key k (of one type T), get_T fails,
\* get_first_T returns the first, a get_next with the first in hand returns
\* the second, and a get_next with the second in hand returns false.
C25_UniqueFirstNext ==
    \A a, b \in 1..Len(cfg_store) :
        (a < b /\ EntriesOf(lookup.key) = {a, b} /\ cfg_store[a].type = lookup.asked /\ cfg_store[b].type = lookup.asked) =>
            /\ lookup.fn = "get" => (~lookup.ok /\ lookup.at = 0)
            /\ lookup.fn = "get_first" => (lookup.ok /\ lookup.at = a /\ iter = a)
            /\ (lookup.fn = "get_next" /\ lookup.from = a) => (lookup.ok /\ lookup.at = b /\ iter = b)
            /\ (lookup.fn = "get_next" /\ lookup.from = b) => (~lookup.ok /\ ~lookup.err)

\* Two entries of key k with another entry between them: get_first, then
\* get_next twice; the second get_next has just returned false.
C25_Witness ==
    /\ Len(cfg_store) = 3
    /\ EntriesOf("k") = {1, 3}
    /\ cfg_store[1].type = cfg_store[3].type
    /\ lookup.fn = "get_next"
    /\ lookup.from = 3
    /\ ~lookup.ok
    /\ iter = 3

\* The size and the address the entry asks for: those of the stack object
\* when `stack` is one, the default size and no address (0) otherwise.
AskedStackSize ==
    IF stack_cfg.stack = "object" /\ stack_cfg.in_size.t = "unsigned" THEN stack_cfg.in_size.u ELSE DefaultStackSize
AskedStackAddress ==
    IF stack_cfg.stack = "object" /\ stack_cfg.in_at.t = "unsigned" THEN stack_cfg.in_at.u ELSE 0

\* C31: pick_stack allocates ceil(size / PAGE_SIZE) pages for the stack,
\* with size 16 KiB when none is given or `stack` is "auto" or absent, at
\* the address asked for when there is one and anywhere otherwise, and
\* returns the top of the stack, the base of the region plus its pages.
C31_StackPagesAndTop ==
    (pc = "video" /\ Done("stack")) =>
        LET pages == CHOOSE n \in 0..AskedStackSize : n * PAGE_SIZE >= AskedStackSize /\ (n = 0 \/ (n - 1) * PAGE_SIZE < AskedStackSize)
        IN  /\ stack_pages = pages
            /\ IF AskedStackAddress # 0
               THEN stack_address = AskedStackAddress + pages /\ "alloc" \in ev
               ELSE stack_address = heap_top /\ "alloc" \in ev

\* C32: CEILING_DIVIDE(x, y) is ceil(x / y) for every x >= 0 and y > 0,
\* 0 for x = 0, and no value it computes on the way exceeds x (or is
\* negative), so it cannot overflow however close x is to the largest value
\* of its type.
C32_CeilingDivide ==
    util.fn = "CEILING_DIVIDE" =>
        LET r == util.result
        IN  /\ r * util.y >= util.x
            /\ r = 0 \/ (r - 1) * util.y < util.x
            /\ util.x = 0 => r = 0
            /\ \A v \in {util.steps.nonzero, util.steps.reduced, util.steps.quotient, util.steps.result} : v >= 0 /\ v <= util.x

\* The large dividend, one more than a multiple of the page size plus a
\* rest, divided by the page size.
C32_Witness ==
    /\ util.fn = "CEILING_DIVIDE"
    /\ util.x = 2147479551
    /\ util.y = PAGE_SIZE
    /\ util.result = 524287

\* C33: for a range sorted by the comparator, lower_bound returns the first
\* position whose element is not less than the key, and end when every
\* element is less than the key, also when several elements equal the key.
C33_LowerBoundIsFirst ==
    util.fn = "lower_bound" =>
        LET notLess == {i \in 0..Len(util.range) - 1 : ~(util.range[i + 1] < util.key)}
        IN  /\ notLess = {} => util.result = Len(util.range)
            /\ notLess # {} => (util.result \in notLess /\ \A i \in notLess : util.result <= i)

\* C34: move_memory(source, destination, size) leaves destination[i] equal
\* to the value source[i] had before the call for every i < size, wherever
\* the two ranges lie, also when they overlap with the destination above or
\* below the source.
C34_MoveMemory ==
    util.fn = "move_memory" =>
        \A i \in 0..util.size - 1 : util.after[util.destination + i] = util.before[util.source + i]

\* Overlapping ranges with the destination one byte above the source, whose
\* bytes differ from their neighbours.
C34_Witness ==
    /\ util.fn = "move_memory"
    /\ util.destination = util.source + 1
    /\ util.size = 3
    /\ \A i \in 0..1 : util.before[util.source + i] # util.before[util.source + i + 1]
    /\ \A i \in 0..2 : util.after[util.destination + i] = util.before[util.source + i]

\* C35: real_mode_address(segment, offset) is the real-mode linear address
\* segment * 16 + offset for every 16-bit segment and offset.
C35_RealModeAddress ==
    util.fn = "real_mode_address" => util.result = util.segment * 16 + util.offset

====
